---- MODULE Spec2Model ----
(***************************************************************************)
(* Model of the zenoh-python binding layer: the Session / Subscriber /     *)
(* Queryable resource handles (src.bck/session.rs, src.bck/types.rs) and   *)
(* the callback bridge that runs Python callbacks on engine threads under  *)
(* the GIL.                                                                *)
(*                                                                         *)
(* The caller's Python code runs on the thread "main" and only while it    *)
(* holds the GIL; every #[pymethods] body therefore runs with gil = MainThread *)
(* and keeps it for the whole call (no allow_threads in the source).       *)
(* The zenoh engine is the environment: each engine call may succeed or    *)
(* fail, and engine threads hand events to the bridging closures.  The     *)
(* engine hands the events of one subscription / queryable one at a time   *)
(* (a hand-off is a synchronous call of the closure); hand-offs to         *)
(* different entities run concurrently on different engine threads.        *)
(***************************************************************************)
EXTENDS Integers, Sequences, FiniteSets, TLC

\* ---------------------------------------------------------------- bounds
MaxEntities == 2
MaxThreads == 2
MaxEvents == 3
MaxOps == 3
MaxReplies == 2
MaxScope == 2
MaxLen == 3
MaxInt == 12
MaxProps == 2
MaxDeclareEvents == 2
MaxFields == 2
MaxPairs == 3

Entities == 1..MaxEntities
Threads == 1..MaxThreads

VARIABLES
    s,              \* Session.s : "Some" | "None"
    closeCalled,    \* ghost: Session.close() has been called at least once
    refs,           \* strong count of the Arc<zenoh::Session>
    eng,            \* engine session: "open" | "closed" | "dropped"
    engCloseCalls,  \* ghost: invocations of the engine's session close
    kind,           \* entity -> "none" | "sub" | "qbl"
    inner,          \* entity -> "Some" | "None"   (Subscriber.inner / Queryable.inner)
    registered,     \* entity -> the engine still dispatches events to its closure
    hCloseCalls,    \* ghost: entity -> close() calls made on the handle
    engHClose,      \* ghost: entity -> invocations of the engine's close for it
    last,           \* outcome of the latest call made by caller code
    engineCalls,    \* ghost: engine interactions made by caller-thread calls
    nOps,           \* calls made by caller code so far
    engErr,         \* ghost: the engine call made by the latest call failed
    gil,            \* holder of the GIL: nobody, the main thread or an engine thread
    pc,             \* engine thread -> position in the bridging closure
    cur,            \* engine thread -> [h, ev, failed] of the event it carries
    handed,         \* entity -> events in the order the engine handed them
    invoked,        \* entity -> events in the order the callback was invoked
    raised,         \* ghost: entity -> events whose callback raised an error
    logs,           \* entity kind -> warnings written to the log channel
    propagated,     \* errors the closures returned into the engine
    mainPc,         \* main thread: "caller" (in caller code) | "get_recv" (inside Session::get)
    chan,           \* replies queued in the receiver of the running get
    txOpen,         \* the engine still holds the sending side of that receiver
    delivered,      \* ghost: replies the engine delivered for that query, in order
    result,         \* the PyList the running get is filling
    returned,       \* the list the latest get returned to the caller
    replyWarns,     \* warnings Query::reply wrote to the log channel
    input,          \* the arguments of the function under study
    output          \* what the function returned for them

lifeVars == <<s, closeCalled, refs, eng, engCloseCalls, kind, inner, registered,
              hCloseCalls, engHClose>>
callVars == <<last, engineCalls, nOps, engErr>>
bridgeVars == <<pc, cur, handed, invoked, raised, logs, propagated>>
getVars == <<mainPc, chan, txOpen, delivered, result, returned>>
fnVars == <<input, output>>
extVars == <<getVars, replyWarns, fnVars>>
vars == <<s, closeCalled, refs, eng, engCloseCalls, kind, inner, registered,
          hCloseCalls, engHClose, last, engineCalls, nOps, engErr, gil, pc, cur,
          handed, invoked, raised, logs, propagated,
          mainPc, chan, txOpen, delivered, result, returned, replyWarns,
          input, output>>

\* ---------------------------------------------------------------- results
Ok == [exc |-> "none", msg |-> "ok"]

SessionClosedErr == [exc |-> "ZError", msg |-> "zenoh session was closed"]

NotSoleOwnerErr ==
    [exc |-> "PyValueError",
     msg |-> "Failed to close Session: not owner of the last reference"]

SubscriberClosedErr == [exc |-> "ZError", msg |-> "the Subscriber was closed"]

SubscriberAlreadyClosedErr ==
    [exc |-> "ZError", msg |-> "the Subscriber was already closed"]

QueryableAlreadyClosedErr ==
    [exc |-> "ZError", msg |-> "the Queryable was already closed"]

KeyExprConversionErr ==
    [exc |-> "PyValueError", msg |-> "Cannot convert type to a zenoh-net KeyExpr"]

ValueConversionErr ==
    [exc |-> "PyValueError", msg |-> "Cannot convert type to a zenoh Value"]

SelectorConversionErr ==
    [exc |-> "PyValueError", msg |-> "Cannot convert type to a zenoh Selector"]

ExtractErr == [exc |-> "PyTypeError", msg |-> "extract"]

\* a Rust panic inside a #[pymethods] body: the binding raises it in the
\* caller as pyo3_runtime.PanicException (a BaseException, not an Exception)
Panic == [exc |-> "PanicException", msg |-> "called Result::unwrap() on an Err value"]

\* an engine failure mapped to a Python error
to_pyerr == [exc |-> "ZError", msg |-> "engine error"]

\* the outcome of an engine call that resolves to Result<_, zenoh error>
EngineRes(engOk) == IF engOk THEN Ok ELSE to_pyerr

\* ---------------------------------------------------------------- slots
\* Session::try_ref : the slot is read, never changed
try_ref(slot) == IF slot = "Some" THEN Ok ELSE SessionClosedErr

\* Session::try_take : Option::take empties the slot whatever it held
try_takeBadPeek(slot) ==
    [res |-> IF slot = "Some" THEN Ok ELSE SessionClosedErr, slot |-> slot]

try_take(slot) ==
    [res |-> IF slot = "Some" THEN Ok ELSE SessionClosedErr, slot |-> "None"]

\* Arc::try_unwrap succeeds only for the last strong reference
try_unwrapBadOffByOne(n) == n <= 2

try_unwrap(n) == n = 1

\* holders of the GIL
GilFree == [who |-> "nobody", t |-> 0]
MainThread == [who |-> "main", t |-> 0]
EngineThread(t) == [who |-> "engine", t |-> t]

NoCall == [op |-> "none", on |-> 0, exc |-> "none", msg |-> "none", argsOk |-> TRUE]

\* the record of a call: the operation, the handle it was made on (0 is the
\* Session, h > 0 the Subscriber / Queryable h), its result, and whether all
\* its arguments were convertible
Call(op, on, r, argsOk) ==
    [op |-> op, on |-> on, exc |-> r.exc, msg |-> r.msg, argsOk |-> argsOk]

\* a call made by caller code: it runs on "main" while main holds the GIL
CallerRuns == gil = MainThread /\ mainPc = "caller" /\ nOps < MaxOps

\* the call returns r to the caller; engFailed: it made an engine call and
\* the engine reported a failure
Return(op, on, r, touchedEngine, argsOk, engFailed) ==
    /\ last' = Call(op, on, r, argsOk)
    /\ nOps' = nOps + 1
    /\ engineCalls' = IF touchedEngine THEN engineCalls + 1 ELSE engineCalls
    /\ engErr' = engFailed

\* the call returns without the engine having failed
Finish(op, on, r, touchedEngine, argsOk) == Return(op, on, r, touchedEngine, argsOk, FALSE)

\* the call ends with builder.res().map_err(to_pyerr): the outcome of the
\* engine call is the result of the call
EngineCall(op, on, engOk, argsOk) == Return(op, on, EngineRes(engOk), TRUE, argsOk, ~engOk)

TypeOK ==
    /\ s \in {"Some", "None"}
    /\ closeCalled \in BOOLEAN
    /\ refs \in 0..(MaxEntities + 1)
    /\ eng \in {"open", "closed", "dropped"}
    /\ engCloseCalls \in 0..MaxOps
    /\ kind \in [Entities -> {"none", "sub", "qbl"}]
    /\ inner \in [Entities -> {"Some", "None"}]
    /\ registered \in [Entities -> BOOLEAN]
    /\ nOps \in 0..MaxOps
    /\ engineCalls \in 0..MaxOps
    /\ gil \in {GilFree, MainThread} \cup {EngineThread(t) : t \in Threads}

\* no function is under study
NoInput == [fn |-> "none"]
NoOutput == [done |-> FALSE]

\* the state after Session::new
InitSession ==
    /\ s = "Some"
    /\ closeCalled = FALSE
    /\ refs = 1
    /\ eng = "open"
    /\ engCloseCalls = 0
    /\ kind = [h \in Entities |-> "none"]
    /\ inner = [h \in Entities |-> "None"]
    /\ registered = [h \in Entities |-> FALSE]
    /\ hCloseCalls = [h \in Entities |-> 0]
    /\ engHClose = [h \in Entities |-> 0]
    /\ last = NoCall
    /\ engineCalls = 0
    /\ nOps = 0
    /\ engErr = FALSE
    /\ gil = MainThread
    /\ pc = [t \in Threads |-> "idle"]
    /\ cur = [t \in Threads |-> [h |-> 0, ev |-> 0, failed |-> FALSE]]
    /\ handed = [h \in Entities |-> <<>>]
    /\ invoked = [h \in Entities |-> <<>>]
    /\ raised = [h \in Entities |-> {}]
    /\ logs = [k \in {"sub", "qbl"} |-> 0]
    /\ propagated = 0
    /\ mainPc = "caller"
    /\ chan = <<>>
    /\ txOpen = FALSE
    /\ delivered = <<>>
    /\ result = <<>>
    /\ returned = <<>>
    /\ replyWarns = 0

Init == InitSession /\ input = NoInput /\ output = NoOutput

\* ---------------------------------------------------------------- inputs
\* Python type names of the objects a caller passes
KeyInputs == {"str", "tuple_int_str", "list"}
ValueInputs == {"bytes", "list"}
SelectorInputs == {"str", "list"}

\* zkey_expr_of_pyany : dispatch on the runtime type name
zkey_expr_of_pyany(ty) ==
    IF ty \in {"KeyExpr", "int", "str", "tuple_int_str"}
    THEN Ok ELSE KeyExprConversionErr

\* zvalue_of_pyany : dispatch on the runtime type name
zvalue_of_pyany(ty) ==
    IF ty \in {"Value", "bytes", "str", "dict", "int", "float",
               "tuple_payload_encoding"}
    THEN Ok ELSE ValueConversionErr

\* the match on the selector's type name in Session::get
selector_of_pyany(ty) ==
    IF ty \in {"KeyExpr", "int", "str"} THEN Ok ELSE SelectorConversionErr

\* ghost: every argument of the call is convertible
KeyArgsOk(keyTy, kwOk) == zkey_expr_of_pyany(keyTy) = Ok /\ kwOk
SelArgsOk(selTy, kwOk) == selector_of_pyany(selTy) = Ok /\ kwOk

\* first entity id not yet used by a declare call
FreshEntity(h) == kind[h] = "none" /\ \A g \in Entities : g < h => kind[g] # "none"

\* ---------------------------------------------------------------- Session
\* Session::id
Id ==
    /\ CallerRuns
    /\ LET r == try_ref(s) IN
         IF r # Ok THEN Finish("id", 0, r, FALSE, TRUE)
         ELSE Finish("id", 0, Ok, TRUE, TRUE)
    /\ UNCHANGED <<lifeVars, gil, bridgeVars, extVars>>

\* Session::info
Info ==
    /\ CallerRuns
    /\ LET r == try_ref(s) IN
         IF r # Ok THEN Finish("info", 0, r, FALSE, TRUE)
         ELSE Finish("info", 0, Ok, TRUE, TRUE)
    /\ UNCHANGED <<lifeVars, gil, bridgeVars, extVars>>

\* Session::config
Config ==
    /\ CallerRuns
    /\ LET r == try_ref(s) IN
         IF r # Ok THEN Finish("config", 0, r, FALSE, TRUE)
         ELSE Finish("config", 0, Ok, TRUE, TRUE)
    /\ UNCHANGED <<lifeVars, gil, bridgeVars, extVars>>

\* Session::close
CloseBadKeepsSlot(engOk) ==
    /\ CallerRuns
    /\ closeCalled' = TRUE
    /\ IF try_ref(s) # Ok
       THEN /\ Finish("close", 0, try_ref(s), FALSE, TRUE)
            /\ UNCHANGED <<s, refs, eng, engCloseCalls>>
       ELSE IF try_unwrap(refs)
       THEN /\ s' = "None"
            /\ refs' = 0
            /\ eng' = "closed"
            /\ engCloseCalls' = engCloseCalls + 1
            /\ EngineCall("close", 0, engOk, TRUE)
       ELSE /\ Finish("close", 0, NotSoleOwnerErr, FALSE, TRUE)
            /\ UNCHANGED <<s, refs, eng, engCloseCalls>>
    /\ UNCHANGED <<kind, inner, registered, hCloseCalls, engHClose, gil, bridgeVars, extVars>>

CloseBadNoOwnerCheck(engOk) ==
    /\ CallerRuns
    /\ closeCalled' = TRUE
    /\ s' = try_take(s).slot
    /\ IF try_take(s).res # Ok
       THEN /\ Finish("close", 0, try_take(s).res, FALSE, TRUE)
            /\ UNCHANGED <<refs, eng, engCloseCalls>>
       ELSE /\ refs' = refs - 1
            /\ eng' = "closed"
            /\ engCloseCalls' = engCloseCalls + 1
            /\ EngineCall("close", 0, engOk, TRUE)
    /\ UNCHANGED <<kind, inner, registered, hCloseCalls, engHClose, gil, bridgeVars, extVars>>

Close(engOk) ==
    /\ CallerRuns
    /\ closeCalled' = TRUE
    /\ s' = try_take(s).slot
    /\ IF try_take(s).res # Ok
       THEN /\ Finish("close", 0, try_take(s).res, FALSE, TRUE)
            /\ UNCHANGED <<refs, eng, engCloseCalls>>
       ELSE IF try_unwrap(refs)
       THEN \* Ok(s) => s.close().res().map_err(to_pyerr): the session is consumed
            /\ refs' = 0
            /\ eng' = "closed"
            /\ engCloseCalls' = engCloseCalls + 1
            /\ EngineCall("close", 0, engOk, TRUE)
       ELSE \* Err(_) => the Arc taken from the slot is dropped
            /\ refs' = refs - 1
            /\ UNCHANGED <<eng, engCloseCalls>>
            /\ Finish("close", 0, NotSoleOwnerErr, FALSE, TRUE)
    /\ UNCHANGED <<kind, inner, registered, hCloseCalls, engHClose, gil, bridgeVars, extVars>>

\* Session::put
PutBadConvertsFirst(keyTy, valTy, kwOk, engOk) ==
    /\ CallerRuns
    /\ IF zkey_expr_of_pyany(keyTy) # Ok
       THEN Finish("put", 0, zkey_expr_of_pyany(keyTy), FALSE, KeyArgsOk(keyTy, kwOk) /\ zvalue_of_pyany(valTy) = Ok)
       ELSE IF zvalue_of_pyany(valTy) # Ok
       THEN Finish("put", 0, zvalue_of_pyany(valTy), FALSE, KeyArgsOk(keyTy, kwOk) /\ zvalue_of_pyany(valTy) = Ok)
       ELSE IF try_ref(s) # Ok THEN Finish("put", 0, try_ref(s), FALSE, KeyArgsOk(keyTy, kwOk) /\ zvalue_of_pyany(valTy) = Ok)
       ELSE IF ~kwOk THEN Finish("put", 0, ExtractErr, TRUE, KeyArgsOk(keyTy, kwOk) /\ zvalue_of_pyany(valTy) = Ok)
       ELSE EngineCall("put", 0, engOk, KeyArgsOk(keyTy, kwOk) /\ zvalue_of_pyany(valTy) = Ok)
    /\ UNCHANGED <<lifeVars, gil, bridgeVars, extVars>>

Put(keyTy, valTy, kwOk, engOk) ==
    /\ CallerRuns
    /\ IF try_ref(s) # Ok THEN Finish("put", 0, try_ref(s), FALSE, KeyArgsOk(keyTy, kwOk) /\ zvalue_of_pyany(valTy) = Ok)
       ELSE IF zkey_expr_of_pyany(keyTy) # Ok
       THEN Finish("put", 0, zkey_expr_of_pyany(keyTy), FALSE, KeyArgsOk(keyTy, kwOk) /\ zvalue_of_pyany(valTy) = Ok)
       ELSE IF zvalue_of_pyany(valTy) # Ok
       THEN Finish("put", 0, zvalue_of_pyany(valTy), FALSE, KeyArgsOk(keyTy, kwOk) /\ zvalue_of_pyany(valTy) = Ok)
       ELSE IF ~kwOk THEN Finish("put", 0, ExtractErr, TRUE, KeyArgsOk(keyTy, kwOk) /\ zvalue_of_pyany(valTy) = Ok)
       ELSE EngineCall("put", 0, engOk, KeyArgsOk(keyTy, kwOk) /\ zvalue_of_pyany(valTy) = Ok)
    /\ UNCHANGED <<lifeVars, gil, bridgeVars, extVars>>

\* Session::delete
Delete(keyTy, kwOk, engOk) ==
    /\ CallerRuns
    /\ IF try_ref(s) # Ok THEN Finish("delete", 0, try_ref(s), FALSE, KeyArgsOk(keyTy, kwOk))
       ELSE IF zkey_expr_of_pyany(keyTy) # Ok
       THEN Finish("delete", 0, zkey_expr_of_pyany(keyTy), FALSE, KeyArgsOk(keyTy, kwOk))
       ELSE IF ~kwOk THEN Finish("delete", 0, ExtractErr, TRUE, KeyArgsOk(keyTy, kwOk))
       ELSE EngineCall("delete", 0, engOk, KeyArgsOk(keyTy, kwOk))
    /\ UNCHANGED <<lifeVars, gil, bridgeVars, extVars>>

\* Session::declare_expr
DeclareExpr(keyTy, engOk) ==
    /\ CallerRuns
    /\ IF try_ref(s) # Ok THEN Finish("declare_expr", 0, try_ref(s), FALSE, KeyArgsOk(keyTy, TRUE))
       ELSE IF zkey_expr_of_pyany(keyTy) # Ok
       THEN Finish("declare_expr", 0, zkey_expr_of_pyany(keyTy), FALSE, KeyArgsOk(keyTy, TRUE))
       ELSE EngineCall("declare_expr", 0, engOk, KeyArgsOk(keyTy, TRUE))
    /\ UNCHANGED <<lifeVars, gil, bridgeVars, extVars>>

\* Session::undeclare_expr (rid: ExprId is already an integer in the body)
UndeclareExpr(engOk) ==
    /\ CallerRuns
    /\ IF try_ref(s) # Ok THEN Finish("undeclare_expr", 0, try_ref(s), FALSE, TRUE)
       ELSE EngineCall("undeclare_expr", 0, engOk, TRUE)
    /\ UNCHANGED <<lifeVars, gil, bridgeVars, extVars>>

\* Session::declare_publication
DeclarePublication(keyTy, engOk) ==
    /\ CallerRuns
    /\ IF try_ref(s) # Ok THEN Finish("declare_publication", 0, try_ref(s), FALSE, KeyArgsOk(keyTy, TRUE))
       ELSE IF zkey_expr_of_pyany(keyTy) # Ok
       THEN Finish("declare_publication", 0, zkey_expr_of_pyany(keyTy), FALSE, KeyArgsOk(keyTy, TRUE))
       ELSE EngineCall("declare_publication", 0, engOk, KeyArgsOk(keyTy, TRUE))
    /\ UNCHANGED <<lifeVars, gil, bridgeVars, extVars>>

\* Session::undeclare_publication
UndeclarePublication(keyTy, engOk) ==
    /\ CallerRuns
    /\ IF try_ref(s) # Ok THEN Finish("undeclare_publication", 0, try_ref(s), FALSE, KeyArgsOk(keyTy, TRUE))
       ELSE IF zkey_expr_of_pyany(keyTy) # Ok
       THEN Finish("undeclare_publication", 0, zkey_expr_of_pyany(keyTy), FALSE, KeyArgsOk(keyTy, TRUE))
       ELSE EngineCall("undeclare_publication", 0, engOk, KeyArgsOk(keyTy, TRUE))
    /\ UNCHANGED <<lifeVars, gil, bridgeVars, extVars>>

\* what a successful declare leaves behind: a handle with a full slot, a
\* closure registered in the engine, and one more reference to the session
\* (the CallbackSubscriber / CallbackQueryable is 'static, so it owns a
\* clone of the Arc rather than borrowing the handle's)
DeclaredBadNoRef(h, k) ==
    /\ kind' = [kind EXCEPT ![h] = k]
    /\ inner' = [inner EXCEPT ![h] = "Some"]
    /\ registered' = [registered EXCEPT ![h] = TRUE]
    /\ UNCHANGED <<s, closeCalled, refs, eng, engCloseCalls, hCloseCalls, engHClose>>

Declared(h, k) ==
    /\ kind' = [kind EXCEPT ![h] = k]
    /\ inner' = [inner EXCEPT ![h] = "Some"]
    /\ registered' = [registered EXCEPT ![h] = TRUE]
    /\ refs' = refs + 1
    /\ UNCHANGED <<s, closeCalled, eng, engCloseCalls, hCloseCalls, engHClose>>

\* Session::subscribe
SubscribeBadKeepsLock(h, keyTy, kwOk, engOk) ==
    /\ CallerRuns
    /\ FreshEntity(h)
    /\ IF try_ref(s) # Ok
       THEN Finish("subscribe", 0, try_ref(s), FALSE, KeyArgsOk(keyTy, kwOk)) /\ UNCHANGED <<lifeVars, gil>>
       ELSE IF zkey_expr_of_pyany(keyTy) # Ok
       THEN Finish("subscribe", 0, zkey_expr_of_pyany(keyTy), FALSE, KeyArgsOk(keyTy, kwOk)) /\ UNCHANGED <<lifeVars, gil>>
       ELSE IF ~kwOk
       THEN Finish("subscribe", 0, ExtractErr, TRUE, KeyArgsOk(keyTy, kwOk)) /\ UNCHANGED <<lifeVars, gil>>
       ELSE IF ~engOk
       THEN EngineCall("subscribe", 0, FALSE, KeyArgsOk(keyTy, kwOk)) /\ UNCHANGED <<lifeVars, gil>>
       ELSE /\ Finish("subscribe", 0, Ok, TRUE, KeyArgsOk(keyTy, kwOk))
            /\ Declared(h, "sub")
            /\ gil' = [who |-> "declare", t |-> 0]
    /\ UNCHANGED <<bridgeVars, extVars>>

Subscribe(h, keyTy, kwOk, engOk) ==
    /\ CallerRuns
    /\ FreshEntity(h)
    /\ IF try_ref(s) # Ok
       THEN Finish("subscribe", 0, try_ref(s), FALSE, KeyArgsOk(keyTy, kwOk)) /\ UNCHANGED lifeVars
       ELSE IF zkey_expr_of_pyany(keyTy) # Ok
       THEN Finish("subscribe", 0, zkey_expr_of_pyany(keyTy), FALSE, KeyArgsOk(keyTy, kwOk)) /\ UNCHANGED lifeVars
       ELSE IF ~kwOk
       THEN Finish("subscribe", 0, ExtractErr, TRUE, KeyArgsOk(keyTy, kwOk)) /\ UNCHANGED lifeVars
       ELSE IF ~engOk
       THEN EngineCall("subscribe", 0, FALSE, KeyArgsOk(keyTy, kwOk)) /\ UNCHANGED lifeVars
       ELSE Finish("subscribe", 0, Ok, TRUE, KeyArgsOk(keyTy, kwOk)) /\ Declared(h, "sub")
    /\ UNCHANGED <<gil, bridgeVars, extVars>>

\* Session::queryable
Queryable(h, keyTy, kwOk, engOk) ==
    /\ CallerRuns
    /\ FreshEntity(h)
    /\ IF try_ref(s) # Ok
       THEN Finish("queryable", 0, try_ref(s), FALSE, KeyArgsOk(keyTy, kwOk)) /\ UNCHANGED lifeVars
       ELSE IF zkey_expr_of_pyany(keyTy) # Ok
       THEN Finish("queryable", 0, zkey_expr_of_pyany(keyTy), FALSE, KeyArgsOk(keyTy, kwOk)) /\ UNCHANGED lifeVars
       ELSE IF ~kwOk
       THEN Finish("queryable", 0, ExtractErr, TRUE, KeyArgsOk(keyTy, kwOk)) /\ UNCHANGED lifeVars
       ELSE IF ~engOk
       THEN EngineCall("queryable", 0, FALSE, KeyArgsOk(keyTy, kwOk)) /\ UNCHANGED lifeVars
       ELSE Finish("queryable", 0, Ok, TRUE, KeyArgsOk(keyTy, kwOk)) /\ Declared(h, "qbl")
    /\ UNCHANGED <<gil, bridgeVars, extVars>>

\* Session::get, up to let receiver = builder.res().map_err(to_pyerr)?: the
\* call fails before the query is submitted, or the query is submitted and
\* the call goes on to collect the replies
Get(selTy, kwOk, engOk) ==
    /\ CallerRuns
    /\ IF try_ref(s) # Ok
       THEN Finish("get", 0, try_ref(s), FALSE, SelArgsOk(selTy, kwOk)) /\ UNCHANGED getVars
       ELSE IF selector_of_pyany(selTy) # Ok
       THEN Finish("get", 0, selector_of_pyany(selTy), FALSE, SelArgsOk(selTy, kwOk)) /\ UNCHANGED getVars
       ELSE IF ~kwOk
       THEN Finish("get", 0, ExtractErr, TRUE, SelArgsOk(selTy, kwOk)) /\ UNCHANGED getVars
       ELSE IF ~engOk
       THEN EngineCall("get", 0, FALSE, SelArgsOk(selTy, kwOk)) /\ UNCHANGED getVars
       ELSE /\ engineCalls' = engineCalls + 1
            /\ mainPc' = "get_recv"
            /\ chan' = <<>>
            /\ txOpen' = TRUE
            /\ delivered' = <<>>
            /\ result' = <<>>
            /\ UNCHANGED <<last, nOps, engErr, returned>>
    /\ UNCHANGED <<lifeVars, gil, bridgeVars, replyWarns, fnVars, fnVars>>

\* the engine sends one more reply of the running query into the receiver
EngineReply ==
    /\ txOpen
    /\ Len(delivered) < MaxReplies
    /\ chan' = Append(chan, Len(delivered) + 1)
    /\ delivered' = Append(delivered, Len(delivered) + 1)
    /\ UNCHANGED <<lifeVars, callVars, gil, bridgeVars, replyWarns, fnVars, mainPc, txOpen, result, returned>>

\* the engine signals completion: it drops the sending side of the receiver
EngineDone ==
    /\ txOpen
    /\ txOpen' = FALSE
    /\ UNCHANGED <<lifeVars, callVars, gil, bridgeVars, replyWarns, fnVars, mainPc, chan, delivered, result, returned>>

\* while let Ok(reply) = receiver.recv() { result.append(Reply { r: reply })?; }
GetRecv ==
    /\ mainPc = "get_recv"
    /\ chan # <<>>
    /\ result' = Append(result, Head(chan))
    /\ chan' = Tail(chan)
    /\ UNCHANGED <<lifeVars, callVars, gil, bridgeVars, replyWarns, fnVars, mainPc, txOpen, delivered, returned>>

\* recv() returns Err once the receiver is empty and disconnected: the loop
\* ends and get returns Ok(result.into())
GetReturnBadNoWait ==
    /\ mainPc = "get_recv"
    /\ chan = <<>>
    /\ returned' = result
    /\ mainPc' = "caller"
    /\ Finish("get", 0, Ok, FALSE, TRUE)
    /\ UNCHANGED <<lifeVars, gil, bridgeVars, replyWarns, fnVars, chan, txOpen, delivered, result>>

GetReturn ==
    /\ mainPc = "get_recv"
    /\ chan = <<>>
    /\ ~txOpen
    /\ returned' = result
    /\ mainPc' = "caller"
    /\ Finish("get", 0, Ok, FALSE, TRUE)
    /\ UNCHANGED <<lifeVars, gil, bridgeVars, replyWarns, fnVars, chan, txOpen, delivered, result>>

\* Session::key_expr_to_expr (key_expr: &KeyExpr is already a KeyExpr in the body)
KeyExprToExpr(engOk) ==
    /\ CallerRuns
    /\ IF try_ref(s) # Ok THEN Finish("key_expr_to_expr", 0, try_ref(s), FALSE, TRUE)
       ELSE EngineCall("key_expr_to_expr", 0, engOk, TRUE)
    /\ UNCHANGED <<lifeVars, gil, bridgeVars, extVars>>

\* ---------------------------------------------------------------- Subscriber / Queryable
\* the handle's close consumed the engine handle: its closure is no longer
\* registered and its reference to the session is released; the session is
\* dropped with its last reference
Released(h) ==
    /\ registered' = [registered EXCEPT ![h] = FALSE]
    /\ refs' = refs - 1
    /\ eng' = IF refs - 1 = 0 /\ eng = "open" THEN "dropped" ELSE eng

\* Subscriber::pull
Pull(h, engOk) ==
    /\ CallerRuns
    /\ kind[h] = "sub"
    /\ IF inner[h] # "Some" THEN Finish("pull", h, SubscriberClosedErr, FALSE, TRUE)
       ELSE EngineCall("pull", h, engOk, TRUE)
    /\ UNCHANGED <<lifeVars, gil, bridgeVars, extVars>>

\* Subscriber::close
SubscriberCloseBadRetry(h, engOk) ==
    /\ CallerRuns
    /\ kind[h] = "sub"
    /\ hCloseCalls' = [hCloseCalls EXCEPT ![h] = @ + 1]
    /\ IF inner[h] # "Some"
       THEN /\ Finish("close", h, SubscriberAlreadyClosedErr, FALSE, TRUE)
            /\ UNCHANGED <<inner, registered, refs, eng, engHClose>>
       ELSE /\ engHClose' = [engHClose EXCEPT ![h] = @ + 1]
            /\ EngineCall("close", h, engOk, TRUE)
            /\ IF engOk
               THEN inner' = [inner EXCEPT ![h] = "None"] /\ Released(h)
               ELSE UNCHANGED <<inner, registered, refs, eng>>
    /\ UNCHANGED <<s, closeCalled, engCloseCalls, kind, gil, bridgeVars, extVars>>

SubscriberClose(h, engOk) ==
    /\ CallerRuns
    /\ kind[h] = "sub"
    /\ hCloseCalls' = [hCloseCalls EXCEPT ![h] = @ + 1]
    /\ inner' = [inner EXCEPT ![h] = "None"]
    /\ IF inner[h] # "Some"
       THEN /\ Finish("close", h, SubscriberAlreadyClosedErr, FALSE, TRUE)
            /\ UNCHANGED <<registered, refs, eng, engHClose>>
       ELSE /\ engHClose' = [engHClose EXCEPT ![h] = @ + 1]
            /\ Released(h)
            /\ EngineCall("close", h, engOk, TRUE)
    /\ UNCHANGED <<s, closeCalled, engCloseCalls, kind, gil, bridgeVars, extVars>>

\* Queryable::close
QueryableCloseBadClosesAll(h, engOk) ==
    /\ CallerRuns
    /\ kind[h] = "qbl"
    /\ hCloseCalls' = [hCloseCalls EXCEPT ![h] = @ + 1]
    /\ inner' = [g \in Entities |-> "None"]
    /\ IF inner[h] # "Some"
       THEN /\ Finish("close", h, QueryableAlreadyClosedErr, FALSE, TRUE)
            /\ UNCHANGED <<registered, refs, eng, engHClose>>
       ELSE /\ engHClose' = [engHClose EXCEPT ![h] = @ + 1]
            /\ Released(h)
            /\ EngineCall("close", h, engOk, TRUE)
    /\ UNCHANGED <<s, closeCalled, engCloseCalls, kind, gil, bridgeVars, extVars>>

QueryableClose(h, engOk) ==
    /\ CallerRuns
    /\ kind[h] = "qbl"
    /\ hCloseCalls' = [hCloseCalls EXCEPT ![h] = @ + 1]
    /\ inner' = [inner EXCEPT ![h] = "None"]
    /\ IF inner[h] # "Some"
       THEN /\ Finish("close", h, QueryableAlreadyClosedErr, FALSE, TRUE)
            /\ UNCHANGED <<registered, refs, eng, engHClose>>
       ELSE /\ engHClose' = [engHClose EXCEPT ![h] = @ + 1]
            /\ Released(h)
            /\ EngineCall("close", h, engOk, TRUE)
    /\ UNCHANGED <<s, closeCalled, engCloseCalls, kind, gil, bridgeVars, extVars>>

\* ---------------------------------------------------------------- constructors
\* calls that are made on no handle
NoHandle == 0 - 1

\* KeyExpr::new : let inner = zkey_expr_of_pyany(key_expr)?
KeyExprNew(keyTy) ==
    /\ CallerRuns
    /\ Finish("KeyExpr", NoHandle, zkey_expr_of_pyany(keyTy), FALSE, KeyArgsOk(keyTy, TRUE))
    /\ UNCHANGED <<lifeVars, gil, bridgeVars, extVars>>

\* KeyExpr::intersect : both conversions are unwrapped
KeyExprIntersect(ty1, ty2) ==
    /\ CallerRuns
    /\ IF zkey_expr_of_pyany(ty1) # Ok \/ zkey_expr_of_pyany(ty2) # Ok
       THEN Finish("intersect", NoHandle, Panic, FALSE, FALSE)
       ELSE Finish("intersect", NoHandle, Ok, FALSE, TRUE)
    /\ UNCHANGED <<lifeVars, gil, bridgeVars, extVars>>

\* Value::new : v: zvalue_of_pyany(any)?
ValueNew(valTy) ==
    /\ CallerRuns
    /\ Finish("Value", NoHandle, zvalue_of_pyany(valTy), FALSE, zvalue_of_pyany(valTy) = Ok)
    /\ UNCHANGED <<lifeVars, gil, bridgeVars, extVars>>

\* Sample::new : both conversions are unwrapped, the kwargs are extracted with ?
SampleNew(keyTy, valTy, kwOk) ==
    /\ CallerRuns
    /\ IF zkey_expr_of_pyany(keyTy) # Ok \/ zvalue_of_pyany(valTy) # Ok
       THEN Finish("Sample", NoHandle, Panic, FALSE, FALSE)
       ELSE IF ~kwOk THEN Finish("Sample", NoHandle, ExtractErr, FALSE, TRUE)
       ELSE Finish("Sample", NoHandle, Ok, FALSE, TRUE)
    /\ UNCHANGED <<lifeVars, gil, bridgeVars, extVars>>

\* Error::new : the conversion is unwrapped
ErrorNew(valTy) ==
    /\ CallerRuns
    /\ IF zvalue_of_pyany(valTy) # Ok
       THEN Finish("Error", NoHandle, Panic, FALSE, FALSE)
       ELSE Finish("Error", NoHandle, Ok, FALSE, TRUE)
    /\ UNCHANGED <<lifeVars, gil, bridgeVars, extVars>>

\* ---------------------------------------------------------------- KeyExpr.intersect on values
\* key expressions as as_id_and_suffix() shows them: (scope, suffix)
Suffixes == {"a/b", "a/*", "a/**", "a/b/c"}
KeyExprs == [scope : 0..MaxScope, suffix : Suffixes]

\* the match in KeyExpr::intersect; libRes is what
\* zenoh::utils::key_expr::intersect returns for the two suffixes
intersectBadIgnoresScope(k1, k2, libRes) == libRes

intersect(k1, k2, libRes) ==
    IF k1.scope # k2.scope THEN FALSE ELSE libRes

InitIntersect ==
    /\ InitSession
    /\ input \in [fn : {"intersect"}, s1 : KeyExprs, s2 : KeyExprs]
    /\ output = NoOutput

\* KeyExpr.intersect(s1, s2) is called on two key expressions
Intersect(libRes) ==
    /\ input.fn = "intersect"
    /\ ~output.done
    /\ output' = [done |-> TRUE, lib |-> libRes,
                  res |-> intersect(input.s1, input.s2, libRes)]
    /\ UNCHANGED <<lifeVars, callVars, gil, bridgeVars, getVars, replyWarns, input>>

\* ---------------------------------------------------------------- Value codec: text forms
\* Payloads and strings are sequences of one-byte characters; "xFF" is a
\* byte that is not valid UTF-8.  The conversions between typed values and
\* payloads are the ones zvalue_of_pyany and decode_value call: those of
\* the zenoh crate (From<i64>, From<f64>, From<Properties> for Value and the
\* matching TryFrom<&Value>), which write and read the decimal text form of
\* Rust's to_string() / parse() and the "k=v;k=v" form of Properties.
TextAlphabet == {"1", "-", ".", ";", "=", "a"}
ByteAlphabet == TextAlphabet \cup {"xFF"}

SeqsUpTo(A, n) == UNION {[1..k -> A] : k \in 0..n}

Range(q) == {q[i] : i \in DOMAIN q}

DigitChars == <<"0", "1", "2", "3", "4", "5", "6", "7", "8", "9">>
IsDigit(c) == c \in Range(DigitChars)
DigitVal(c) == (CHOOSE d \in 1..10 : DigitChars[d] = c) - 1
AllDigits(q) == \A i \in DOMAIN q : IsDigit(q[i])

RECURSIVE NatToString(_)
NatToString(n) ==
    IF n < 10 THEN <<DigitChars[n + 1]>>
    ELSE NatToString(n \div 10) \o <<DigitChars[(n % 10) + 1]>>

RECURSIVE DigitsVal(_)
DigitsVal(q) ==
    IF q = <<>> THEN 0
    ELSE DigitsVal(SubSeq(q, 1, Len(q) - 1)) * 10 + DigitVal(q[Len(q)])

\* position of the first c in q (q holds one)
IndexOf(q, c) == CHOOSE i \in DOMAIN q : q[i] = c /\ \A j \in 1..(i - 1) : q[j] # c

HasSign(q) == q # <<>> /\ q[1] \in {"-", "+"}
Unsigned(q) == IF HasSign(q) THEN Tail(q) ELSE q

\* i64::to_string
IntToString(i) == IF i < 0 THEN <<"-">> \o NatToString(0 - i) ELSE NatToString(i)

\* str::parse::<i64> : an optional sign and one or more digits
ParseInt(q) ==
    IF Unsigned(q) = <<>> \/ ~AllDigits(Unsigned(q)) THEN [ok |-> FALSE]
    ELSE [ok |-> TRUE,
          v |-> IF q[1] = "-" THEN 0 - DigitsVal(Unsigned(q)) ELSE DigitsVal(Unsigned(q))]

\* an f64 is identified by the shortest decimal that parses to it, which is
\* what to_string() prints: sign, integer part, fraction digits
Float(neg, ip, fd) == [cls |-> "finite", neg |-> neg, ip |-> ip, fd |-> fd]
Inf(neg) == [cls |-> "inf", neg |-> neg, ip |-> 0, fd |-> <<>>]
NaN == [cls |-> "nan", neg |-> FALSE, ip |-> 0, fd |-> <<>>]

RECURSIVE StripZeros(_)
StripZeros(q) ==
    IF q # <<>> /\ q[Len(q)] = "0" THEN StripZeros(SubSeq(q, 1, Len(q) - 1)) ELSE q

\* f64::to_string
FloatToString(f) ==
    IF f.cls = "nan" THEN <<"N", "a", "N">>
    ELSE (IF f.neg THEN <<"-">> ELSE <<>>) \o
         (IF f.cls = "inf" THEN <<"i", "n", "f">>
          ELSE NatToString(f.ip) \o (IF f.fd = <<>> THEN <<>> ELSE <<".">> \o f.fd))

\* str::parse::<f64> : "inf" / "NaN", or an optional sign, digits, and an
\* optional point with digits, with a digit on at least one side of it
ParseFloat(q) ==
    LET u == Unsigned(q)
        neg == HasSign(q) /\ q[1] = "-"
        point == "." \in Range(u)
        ipart == IF point THEN SubSeq(u, 1, IndexOf(u, ".") - 1) ELSE u
        fpart == IF point THEN SubSeq(u, IndexOf(u, ".") + 1, Len(u)) ELSE <<>>
    IN  IF u = <<"i", "n", "f">> THEN [ok |-> TRUE, v |-> Inf(neg)]
        ELSE IF u = <<"N", "a", "N">> THEN [ok |-> TRUE, v |-> NaN]
        ELSE IF ~AllDigits(ipart) \/ ~AllDigits(fpart) \/ Len(ipart) + Len(fpart) = 0
        THEN [ok |-> FALSE]
        ELSE [ok |-> TRUE, v |-> Float(neg, DigitsVal(ipart), StripZeros(fpart))]

\* String::from_utf8 fails on a byte that is not UTF-8
ValidUtf8(q) == "xFF" \notin Range(q)

\* String::from_utf8_lossy replaces it by U+FFFD
from_utf8_lossy(q) == [i \in DOMAIN q |-> IF q[i] = "xFF" THEN "uFFFD" ELSE q[i]]

\* the pieces of q between the separators c
RECURSIVE Split(_, _)
Split(q, c) ==
    IF c \notin Range(q) THEN <<q>>
    ELSE <<SubSeq(q, 1, IndexOf(q, c) - 1)>> \o Split(SubSeq(q, IndexOf(q, c) + 1, Len(q)), c)

\* Properties::to_string : the entries in iteration order ord, "k=v" (or "k"
\* for an empty value) joined by ";"
RECURSIVE PropertiesToString(_, _)
PropertiesToString(m, ord) ==
    IF ord = <<>> THEN <<>>
    ELSE LET k == ord[1]
             entry == IF m[k] = <<>> THEN k ELSE k \o <<"=">> \o m[k]
         IN  IF Len(ord) = 1 THEN entry
             ELSE entry \o <<";">> \o PropertiesToString(m, Tail(ord))

\* Properties::from(&str) : split at ";", skip the empty pieces, split each
\* piece at its first "="; a later entry replaces an earlier one
RECURSIVE PropertiesOfPieces(_)
PropertiesOfPieces(pieces) ==
    IF pieces = <<>> THEN <<>>
    ELSE LET before == PropertiesOfPieces(SubSeq(pieces, 1, Len(pieces) - 1))
             piece == pieces[Len(pieces)]
             k == IF "=" \in Range(piece) THEN SubSeq(piece, 1, IndexOf(piece, "=") - 1)
                  ELSE piece
             v == IF "=" \in Range(piece)
                  THEN SubSeq(piece, IndexOf(piece, "=") + 1, Len(piece))
                  ELSE <<>>
         IN  IF piece = <<>> THEN before
             ELSE [x \in DOMAIN before \cup {k} |-> IF x = k THEN v ELSE before[x]]

ParseProperties(q) ==
    IF ~ValidUtf8(q) THEN [ok |-> FALSE]
    ELSE [ok |-> TRUE, v |-> PropertiesOfPieces(Split(q, ";"))]

\* serde_json::from_slice on the payloads of the alphabet, which can spell
\* JSON numbers only: -? (0 | [1-9][0-9]*) (. [0-9]+)?  A number without
\* fraction is PosInt or NegInt ("-0" is the float -0.0), else Float
ParseJson(q) ==
    LET neg == q # <<>> /\ q[1] = "-"
        u == IF neg THEN Tail(q) ELSE q
        point == "." \in Range(u)
        ipart == IF point THEN SubSeq(u, 1, IndexOf(u, ".") - 1) ELSE u
        fpart == IF point THEN SubSeq(u, IndexOf(u, ".") + 1, Len(u)) ELSE <<>>
    IN  IF \/ ipart = <<>>
           \/ ~AllDigits(ipart)
           \/ ~AllDigits(fpart)
           \/ (Len(ipart) > 1 /\ ipart[1] = "0")
           \/ (point /\ fpart = <<>>)
        THEN [ok |-> FALSE]
        ELSE IF point \/ (neg /\ DigitsVal(ipart) = 0)
        THEN [ok |-> TRUE, v |-> [kind |-> "Float",
                                  f |-> Float(neg, DigitsVal(ipart), StripZeros(fpart))]]
        ELSE IF neg THEN [ok |-> TRUE, v |-> [kind |-> "NegInt", i |-> 0 - DigitsVal(ipart)]]
        ELSE [ok |-> TRUE, v |-> [kind |-> "PosInt", i |-> DigitsVal(ipart)]]

\* ---------------------------------------------------------------- Value codec
\* Python objects: [ty, v] with ty the type name; results of a conversion:
\* [ok |-> TRUE, ...] or [ok |-> FALSE, exc, msg]
PyObj(ty, v) == [ok |-> TRUE, ty |-> ty, v |-> v]
PyErr(exc, msg) == [ok |-> FALSE, exc |-> exc, msg |-> msg]
ZValue(encoding, payload) == [ok |-> TRUE, encoding |-> encoding, payload |-> payload]

\* the prefixes decode_value knows, and two it does not
KnownEncodings == {"Empty", "AppOctetStream", "TextPlain", "AppProperties",
                   "AppJson", "TextJson", "AppInteger", "AppFloat"}
Encodings == KnownEncodings \cup {"AppCustom", "TextXml"}

\* serde_json::Number : PosInt(u64) | NegInt(i64) | Float(f64)
as_u64(n) == n.kind = "PosInt"
as_i64(n) == n.kind \in {"PosInt", "NegInt"}
as_f64(n) == n.kind \in {"PosInt", "NegInt", "Float"}

\* IntoPyAlt for serde_json::Number : as_u64, then as_i64, then as_f64
into_py_altBadNoFloat(n) ==
    IF as_u64(n) THEN PyObj("int", n.i)
    ELSE IF as_i64(n) THEN PyObj("int", n.i)
    ELSE PyErr("PanicException", "internal error: entered unreachable code")

into_py_alt(n) ==
    IF as_u64(n) THEN PyObj("int", n.i)
    ELSE IF as_i64(n) THEN PyObj("int", n.i)
    ELSE IF as_f64(n) THEN PyObj("float", n.f)
    ELSE PyErr("PanicException", "internal error: entered unreachable code")

\* .map_err(|e| exceptions::PyTypeError::new_err(e.to_string()))
DecodeErr(encoding) == PyErr("PyTypeError", <<"cannot parse the payload as", encoding>>)

\* decode_value : match value.encoding.prefix()
decode_value(value) ==
    IF value.encoding \in {"Empty", "AppOctetStream"} THEN PyObj("bytes", value.payload)
    ELSE IF value.encoding = "TextPlain" THEN PyObj("str", from_utf8_lossy(value.payload))
    ELSE IF value.encoding = "AppProperties"
    THEN (IF ParseProperties(value.payload).ok
          THEN PyObj("dict", ParseProperties(value.payload).v)
          ELSE DecodeErr(value.encoding))
    ELSE IF value.encoding \in {"AppJson", "TextJson"}
    THEN (IF ValidUtf8(value.payload) /\ ParseJson(value.payload).ok
          THEN into_py_alt(ParseJson(value.payload).v)
          ELSE DecodeErr(value.encoding))
    ELSE IF value.encoding = "AppInteger"
    THEN (IF ParseInt(value.payload).ok
          THEN PyObj("int", ParseInt(value.payload).v)
          ELSE DecodeErr(value.encoding))
    ELSE IF value.encoding = "AppFloat"
    THEN (IF ParseFloat(value.payload).ok
          THEN PyObj("float", ParseFloat(value.payload).v)
          ELSE DecodeErr(value.encoding))
    ELSE PyErr("PyTypeError",
               <<"Don't know how to decode Value's payload with encoding:", value.encoding>>)

\* zvalue_of_pyany on a Python object x; ord is the order in which the
\* HashMap extracted from a dict is iterated
ZValueOf(x, ord) ==
    IF zvalue_of_pyany(x.ty) # Ok
    THEN PyErr(ValueConversionErr.exc, <<ValueConversionErr.msg, x.ty>>)
    ELSE IF x.ty = "bytes" THEN ZValue("AppOctetStream", x.v)
    ELSE IF x.ty = "str" THEN ZValue("TextPlain", x.v)
    ELSE IF x.ty = "dict" THEN ZValue("AppProperties", PropertiesToString(x.v, ord))
    ELSE IF x.ty = "int" THEN ZValue("AppInteger", IntToString(x.v))
    ELSE IF x.ty = "float" THEN ZValue("AppFloat", FloatToString(x.v))
    ELSE ZValue(x.v.encoding, x.v.payload)

\* the orders in which the entries of a dict can be iterated
Orders(x) ==
    IF x.ty # "dict" THEN {<<>>}
    ELSE {o \in [1..Cardinality(DOMAIN x.v) -> DOMAIN x.v] :
            \A i, j \in DOMAIN o : i # j => o[i] # o[j]}

\* the Python objects given to Value(): bytes, str, int, float, dict, the
\* (payload, encoding) pair form, and an object of an unsupported type
FloatInputs ==
    {Float(FALSE, 0, <<>>), Float(TRUE, 0, <<>>), Float(FALSE, 1, <<"5">>),
     Float(TRUE, 2, <<"2", "5">>), Float(FALSE, 10, <<>>), Inf(FALSE), Inf(TRUE), NaN}

PropStrings == SeqsUpTo(TextAlphabet, 1)

Dicts ==
    UNION {[D -> PropStrings] :
             D \in {K \in SUBSET (PropStrings \ {<<>>}) : Cardinality(K) <= MaxProps}}

TypedInputs ==
    {PyObj("bytes", q) : q \in SeqsUpTo(ByteAlphabet, MaxLen)}
      \cup {PyObj("str", q) : q \in SeqsUpTo(TextAlphabet, MaxLen)}
      \cup {PyObj("int", i) : i \in (0 - MaxInt)..MaxInt}
      \cup {PyObj("float", f) : f \in FloatInputs}
      \cup {PyObj("dict", m) : m \in Dicts}
      \cup {PyObj("tuple_payload_encoding", [encoding |-> e, payload |-> q]) :
              e \in Encodings, q \in SeqsUpTo(ByteAlphabet, MaxLen)}
      \cup {PyObj("list", <<>>)}

InitCodec ==
    /\ InitSession
    /\ input \in [fn : {"codec"}, x : TypedInputs]
    /\ output = NoOutput

\* Value::new : Value { v: zvalue_of_pyany(any)? }
Encode(ord) ==
    /\ input.fn = "codec"
    /\ "val" \notin DOMAIN output
    /\ ord \in Orders(input.x)
    /\ LET v == ZValueOf(input.x, ord) IN
         output' = [done |-> ~v.ok, val |-> v, dec |-> v]
    /\ UNCHANGED <<lifeVars, callVars, gil, bridgeVars, getVars, replyWarns, input>>

\* Value::decode : decode_value(&self.v, py)
Decode ==
    /\ input.fn = "codec"
    /\ "val" \in DOMAIN output
    /\ ~output.done
    /\ output' = [done |-> TRUE, val |-> output.val, dec |-> decode_value(output.val)]
    /\ UNCHANGED <<lifeVars, callVars, gil, bridgeVars, getVars, replyWarns, input>>

\* ---------------------------------------------------------------- caller thread and the GIL
\* caller code blocks outside the binding (time.sleep in the examples): the
\* interpreter releases the GIL
CallerYield ==
    /\ gil = MainThread
    /\ mainPc = "caller"
    /\ gil' = GilFree
    /\ UNCHANGED <<lifeVars, callVars, bridgeVars, extVars>>

\* caller code resumes once the interpreter has the GIL again
CallerResume ==
    /\ gil = GilFree
    /\ gil' = MainThread
    /\ UNCHANGED <<lifeVars, callVars, bridgeVars, extVars>>

\* ---------------------------------------------------------------- callback bridge
InClosure(t) == pc[t] # "idle"

\* events the engine has handed to the closures so far
TotalHanded ==
    Cardinality({e \in Entities \X (1..MaxEvents) : e[2] <= Len(handed[e[1]])})

NoEvent == [h |-> 0, ev |-> 0, failed |-> FALSE]

\* the engine calls the closure of entity h with a new Sample / Query
Deliver(t, h) ==
    /\ pc[t] = "idle"
    /\ registered[h]
    /\ eng = "open"
    /\ TotalHanded < MaxEvents
    /\ \A u \in Threads : InClosure(u) => cur[u].h # h
    /\ handed' = [handed EXCEPT ![h] = Append(@, Len(@) + 1)]
    /\ cur' = [cur EXCEPT ![t] = [h |-> h, ev |-> Len(handed[h]) + 1, failed |-> FALSE]]
    /\ pc' = [pc EXCEPT ![t] = "acquire_gil"]
    /\ UNCHANGED <<extVars, lifeVars, callVars, gil, invoked, raised, logs, propagated>>

\* let gil = Python::acquire_gil(): blocks until the GIL is free
AcquireGilBadNoWait(t) ==
    /\ pc[t] = "acquire_gil"
    /\ gil' = EngineThread(t)
    /\ pc' = [pc EXCEPT ![t] = "call1"]
    /\ UNCHANGED <<extVars, lifeVars, callVars, cur, handed, invoked, raised, logs, propagated>>

AcquireGil(t) ==
    /\ pc[t] = "acquire_gil"
    /\ gil = GilFree
    /\ gil' = EngineThread(t)
    /\ pc' = [pc EXCEPT ![t] = "call1"]
    /\ UNCHANGED <<extVars, lifeVars, callVars, cur, handed, invoked, raised, logs, propagated>>

\* cb_obj.as_ref(py).call1(cb_args): the callback starts on the event
CallbackStartBadNewestFirst(t) ==
    /\ pc[t] = "call1"
    /\ invoked' = [invoked EXCEPT ![cur[t].h] = <<cur[t].ev>> \o @]
    /\ pc' = [pc EXCEPT ![t] = "in_callback"]
    /\ UNCHANGED <<extVars, lifeVars, callVars, gil, cur, handed, raised, logs, propagated>>

CallbackStart(t) ==
    /\ pc[t] = "call1"
    /\ invoked' = [invoked EXCEPT ![cur[t].h] = Append(@, cur[t].ev)]
    /\ pc' = [pc EXCEPT ![t] = "in_callback"]
    /\ UNCHANGED <<extVars, lifeVars, callVars, gil, cur, handed, raised, logs, propagated>>

\* call1 returns Ok or Err(e)
CallbackEnd(t, raises) ==
    /\ pc[t] = "in_callback"
    /\ cur' = [cur EXCEPT ![t].failed = raises]
    /\ raised' = IF raises THEN [raised EXCEPT ![cur[t].h] = @ \cup {cur[t].ev}] ELSE raised
    /\ pc' = [pc EXCEPT ![t] = IF raises THEN "warn" ELSE "return"]
    /\ UNCHANGED <<extVars, lifeVars, callVars, gil, handed, invoked, logs, propagated>>

\* Query::reply (types.rs), called by the callback of a queryable on the
\* Query it was given: if let Err(e) = self.q.reply(..).res() { warn!(..) },
\* and the method returns ()
QueryReply(t, engOk) ==
    /\ pc[t] = "in_callback"
    /\ kind[cur[t].h] = "qbl"
    /\ nOps < MaxOps
    /\ Return("reply", cur[t].h, Ok, TRUE, TRUE, ~engOk)
    /\ replyWarns' = IF engOk THEN replyWarns ELSE replyWarns + 1
    /\ UNCHANGED <<lifeVars, gil, bridgeVars, getVars, fnVars>>

\* _Query::reply (queryable.rs): self.0.reply(..).res_sync().map_err(to_pyerr)
QueryReplySync(t, engOk) ==
    /\ pc[t] = "in_callback"
    /\ kind[cur[t].h] = "qbl"
    /\ nOps < MaxOps
    /\ EngineCall("reply", cur[t].h, engOk, TRUE)
    /\ UNCHANGED <<lifeVars, gil, bridgeVars, extVars>>

\* if let Err(e) = ... { warn!(...); e.print(py); }
WarnBadTerminates(t) ==
    /\ pc[t] = "warn"
    /\ logs' = [logs EXCEPT ![kind[cur[t].h]] = @ + 1]
    /\ registered' = [registered EXCEPT ![cur[t].h] = FALSE]
    /\ propagated' = propagated + 1
    /\ pc' = [pc EXCEPT ![t] = "return"]
    /\ UNCHANGED <<s, closeCalled, refs, eng, engCloseCalls, kind, inner,
                   hCloseCalls, engHClose, callVars, gil, cur, handed, invoked, raised, extVars>>

Warn(t) ==
    /\ pc[t] = "warn"
    /\ logs' = [logs EXCEPT ![kind[cur[t].h]] = @ + 1]
    /\ pc' = [pc EXCEPT ![t] = "return"]
    /\ UNCHANGED <<extVars, lifeVars, callVars, gil, cur, handed, invoked, raised, propagated>>

\* end of the closure: the GILGuard is dropped and the closure returns ()
BridgeReturnBadKeepsGilOnError(t) ==
    /\ pc[t] = "return"
    /\ gil' = IF cur[t].failed THEN gil ELSE GilFree
    /\ pc' = [pc EXCEPT ![t] = "idle"]
    /\ cur' = [cur EXCEPT ![t] = NoEvent]
    /\ UNCHANGED <<extVars, lifeVars, callVars, handed, invoked, raised, logs, propagated>>

BridgeReturn(t) ==
    /\ pc[t] = "return"
    /\ gil' = GilFree
    /\ pc' = [pc EXCEPT ![t] = "idle"]
    /\ cur' = [cur EXCEPT ![t] = NoEvent]
    /\ UNCHANGED <<extVars, lifeVars, callVars, handed, invoked, raised, logs, propagated>>

\* ---------------------------------------------------------------- publication to subscription
\* the objects published: the short ones of each supported type
PubInputs ==
    {x \in TypedInputs :
        \/ x.ty \in {"bytes", "str"} /\ Len(x.v) <= 1
        \/ x.ty = "int" /\ x.v \in {0 - 1, 0, 1}
        \/ x.ty = "float"
        \/ x.ty = "dict" /\ Cardinality(DOMAIN x.v) <= 1}

\* the keys published to, given as str: scope 0 and the string as suffix
PubKeys == {"x/y"}

InitPubSub ==
    /\ InitSession
    /\ input \in [fn : {"pubsub"}, key : PubKeys, x : PubInputs]
    /\ output = NoOutput

\* Session::put of the object input.x on the key input.key: the engine gets
\* the Sample (key expression, converted value)
PutValue(ord, engOk) ==
    /\ CallerRuns
    /\ input.fn = "pubsub"
    /\ "val" \notin DOMAIN output
    /\ ord \in Orders(input.x)
    /\ IF try_ref(s) # Ok THEN Finish("put", 0, try_ref(s), FALSE, TRUE) /\ UNCHANGED output
       ELSE IF ~ZValueOf(input.x, ord).ok
       THEN Finish("put", 0, ValueConversionErr, FALSE, FALSE) /\ UNCHANGED output
       ELSE /\ EngineCall("put", 0, engOk, TRUE)
            /\ output' = IF engOk
                         THEN [done |-> FALSE, key |-> input.key,
                               val |-> ZValueOf(input.x, ord), dec |-> NoOutput]
                         ELSE output
    /\ UNCHANGED <<lifeVars, gil, bridgeVars, getVars, replyWarns, input>>

\* the engine routes the published Sample to a subscription on its key: it
\* calls the closure once for the publication (every subscription of this
\* scenario is declared on input.key)
Route(t, h) ==
    /\ input.fn = "pubsub"
    /\ "val" \in DOMAIN output
    /\ kind[h] = "sub"
    /\ handed[h] = <<>>
    /\ Deliver(t, h)

\* the callback reads sample.key_expr.suffix and sample.value.decode()
CallbackDecode(t) ==
    /\ pc[t] = "in_callback"
    /\ input.fn = "pubsub"
    /\ ~output.done
    /\ output' = [done |-> TRUE, key |-> output.key, val |-> output.val,
                  dec |-> decode_value(output.val)]
    /\ UNCHANGED <<lifeVars, callVars, gil, bridgeVars, getVars, replyWarns, input>>

\* ---------------------------------------------------------------- value and its encoding
\* the objects a Value is built from or that are put: the short ones of each
\* supported type, the pair form, and an object of an unsupported type
ValueObjects ==
    PubInputs
      \cup {x \in TypedInputs : x.ty = "tuple_payload_encoding" /\ Len(x.v.payload) <= 1}
      \cup {PyObj("list", <<>>)}

\* the encoding option of put: absent, an Encoding, or an object of another type
EncodingOptions == {"absent", "not_an_encoding"} \cup Encodings

InitValue ==
    /\ InitSession
    /\ input \in [fn : {"value"}, x : ValueObjects]
    /\ output = NoOutput

\* Value::new on input.x : Value { v: zvalue_of_pyany(any)? }
ValueOf(ord) ==
    /\ input.fn = "value"
    /\ ~output.done
    /\ ord \in Orders(input.x)
    /\ output' = [done |-> TRUE, by |-> "Value", val |-> ZValueOf(input.x, ord)]
    /\ UNCHANGED <<lifeVars, callVars, gil, bridgeVars, getVars, replyWarns, input>>

\* Session::put of input.x with the encoding option opt: the value converted
\* from input.x is given to the builder, and builder.encoding(e) then sets
\* the encoding of the written data to the option; output.val is the value
\* the engine is asked to write
PutEncoding(ord, opt, engOk) ==
    /\ CallerRuns
    /\ input.fn = "value"
    /\ ~output.done
    /\ ord \in Orders(input.x)
    /\ LET v == ZValueOf(input.x, ord) IN
         IF try_ref(s) # Ok
         THEN Finish("put", 0, try_ref(s), FALSE, TRUE) /\ UNCHANGED output
         ELSE IF ~v.ok
         THEN Finish("put", 0, ValueConversionErr, FALSE, FALSE) /\ UNCHANGED output
         ELSE IF opt = "not_an_encoding"
         THEN Finish("put", 0, ExtractErr, FALSE, FALSE) /\ UNCHANGED output
         ELSE /\ EngineCall("put", 0, engOk, TRUE)
              /\ output' = IF engOk
                           THEN [done |-> TRUE, by |-> "put",
                                 val |-> IF opt = "absent" THEN v
                                         ELSE ZValue(opt, v.payload)]
                           ELSE output
    /\ UNCHANGED <<lifeVars, gil, bridgeVars, getVars, replyWarns, input>>


\* ---------------------------------------------------------------- value selector
\* names of filter fields, property keys and values, fragment fields
SelNames == {<<"a">>, <<"b">>}

\* filters: none, a field name, a comparison
SelFilters == {<<>>, <<"a">>, <<"a", ">", "1">>}

\* property maps with a value for every key
SelProperties ==
    UNION {[D -> SelNames] : D \in {K \in SUBSET SelNames : Cardinality(K) <= MaxProps}}

\* fragments: one to MaxFields field names
SelFragments == SeqsUpTo(SelNames, MaxFields) \ {<<>>}

\* the fields joined by the separator c
RECURSIVE Join(_, _)
Join(fields, c) ==
    IF fields = <<>> THEN <<>>
    ELSE IF Len(fields) = 1 THEN fields[1]
    ELSE fields[1] \o <<c>> \o Join(Tail(fields), c)

\* the text filter(properties)[fragment] of a value selector; ord is the
\* order in which the properties are written
ValueSelectorText(x) ==
    x.filter
      \o (IF x.hasProps THEN <<"(">> \o PropertiesToString(x.props, x.ord) \o <<")">>
          ELSE <<>>)
      \o (IF x.hasFrag THEN <<"[">> \o Join(x.fields, ";") \o <<"]">> ELSE <<>>)

ValueSelectorInputs ==
    {x \in [fn : {"value_selector"}, filter : SelFilters,
            hasProps : BOOLEAN, props : SelProperties,
            ord : SeqsUpTo(SelNames, MaxProps),
            hasFrag : BOOLEAN, fields : SeqsUpTo(SelNames, MaxFields)] :
        /\ x.ord \in Orders(PyObj("dict", x.props))
        /\ x.hasProps \/ x.props = <<>>
        /\ IF x.hasFrag THEN x.fields \in SelFragments ELSE x.fields = <<>>}

None == [some |-> FALSE]
Some(v) == [some |-> TRUE, v |-> v]

\* position of the first character of q that is in the set cs, Len(q) + 1
\* when q holds none
FirstOf(q, cs) ==
    IF Range(q) \cap cs = {} THEN Len(q) + 1
    ELSE CHOOSE i \in DOMAIN q : q[i] \in cs /\ \A j \in 1..(i - 1) : q[j] \notin cs

\* the text of q between the first open and the close that follows it
Between(q, open, close) ==
    LET rest == SubSeq(q, FirstOf(q, {open}) + 1, Len(q))
    IN  SubSeq(rest, 1, FirstOf(rest, {close}) - 1)

\* zenoh's Selector::parse_value_selector on the text q, by the structure
\* the Selector and ValueSelector classes document: the filter is all
\* characters before "(" or "[", the properties are the characters between
\* "(" and ")", the fragment the characters between "[" and "]"
zparse_value_selector(q) ==
    [filter |-> SubSeq(q, 1, FirstOf(q, {"(", "["}) - 1),
     properties |-> IF "(" \in Range(q)
                    THEN PropertiesOfPieces(Split(Between(q, "(", ")"), ";"))
                    ELSE <<>>,
     fragment |-> IF "[" \in Range(q) THEN Some(Between(q, "[", "]")) ELSE None]

\* Selector::parse_value_selector : the ValueSelector made of the three
\* parts; its fragment is an Option<String>, which caller code reads as a
\* str or as None
parse_value_selector(q) ==
    LET zvs == zparse_value_selector(q)
    IN  [filter |-> zvs.filter,
         properties |-> zvs.properties,
         fragment |-> IF zvs.fragment.some THEN PyObj("str", zvs.fragment.v)
                      ELSE PyObj("None", <<>>)]

InitValueSelector ==
    /\ InitSession
    /\ input \in ValueSelectorInputs
    /\ output = NoOutput

\* selector.parse_value_selector() on the selector whose value selector is
\* the text of the input
ParseValueSelector ==
    /\ input.fn = "value_selector"
    /\ ~output.done
    /\ output' = [done |-> TRUE, text |-> ValueSelectorText(input),
                  res |-> parse_value_selector(ValueSelectorText(input))]
    /\ UNCHANGED <<lifeVars, callVars, gil, bridgeVars, getVars, replyWarns, input>>


\* ---------------------------------------------------------------- query value selector
\* the (key, value) pairs the iterator self.0.value_selector().decode()
\* yields for the value selector of a query, in its order
DecodedPairs == SeqsUpTo(SelNames \X SelNames, MaxPairs)

\* the duplicate is not detected: the later value replaces the earlier one
RECURSIVE decode_value_selectorBadOverwrite(_, _)
decode_value_selectorBadOverwrite(pairs, res) ==
    IF pairs = <<>> THEN PyObj("dict", res)
    ELSE LET k == pairs[1][1]
             v == pairs[1][2]
         IN  decode_value_selectorBadOverwrite(
                 Tail(pairs), [x \in DOMAIN res \cup {k} |-> IF x = k THEN v ELSE res[x]])

\* _Query::decode_value_selector : the loop over the pairs, res being the
\* HashMap filled so far; an occupied entry returns the error at once
RECURSIVE decode_value_selector(_, _)
decode_value_selector(pairs, res) ==
    IF pairs = <<>> THEN PyObj("dict", res)
    ELSE LET k == pairs[1][1]
             v == pairs[1][2]
         IN  IF k \in DOMAIN res
             THEN PyErr(to_pyerr.exc, <<"Detected duplicate key", k>>)
             ELSE decode_value_selector(
                      Tail(pairs), [x \in DOMAIN res \cup {k} |-> IF x = k THEN v ELSE res[x]])

InitDecodeValueSelector ==
    /\ InitSession
    /\ input \in [fn : {"decode_value_selector"}, pairs : DecodedPairs]
    /\ output = NoOutput

\* query.decode_value_selector()
DecodeValueSelector ==
    /\ input.fn = "decode_value_selector"
    /\ ~output.done
    /\ output' = [done |-> TRUE, res |-> decode_value_selector(input.pairs, <<>>)]
    /\ UNCHANGED <<lifeVars, callVars, gil, bridgeVars, getVars, replyWarns, input>>


\* ---------------------------------------------------------------- selector of a get
\* Python type names of the objects given to get as its selector: the
\* documented ones and an unsupported one
SelectorObjects == {"Selector", "KeyExpr", "int", "str", "list"}

InitGet ==
    /\ InitSession
    /\ input \in [fn : {"get"}, selector : SelectorObjects]
    /\ output = NoOutput

\* session.get(selector, **kwargs) with the object of the input as selector
GetSelector(kwOk, engOk) ==
    /\ input.fn = "get"
    /\ Get(input.selector, kwOk, engOk)


\* ---------------------------------------------------------------- get answered in the same process
\* the event that is the Query of the get running in this process; the
\* events numbered from 1 are queries of other processes
GetQuery == 0

\* session.get(str) while no queryable of this process has yet been handed
\* the query of a get
GetLocal(engOk) ==
    /\ \A h \in Entities : GetQuery \notin Range(handed[h])
    /\ Get("str", TRUE, engOk)

\* the engine calls the closure of the queryable h of this process with the
\* Query of the running get
QueryDeliver(t, h) ==
    /\ txOpen
    /\ pc[t] = "idle"
    /\ registered[h]
    /\ kind[h] = "qbl"
    /\ eng = "open"
    /\ GetQuery \notin Range(handed[h])
    /\ handed' = [handed EXCEPT ![h] = Append(@, GetQuery)]
    /\ cur' = [cur EXCEPT ![t] = [h |-> h, ev |-> GetQuery, failed |-> FALSE]]
    /\ pc' = [pc EXCEPT ![t] = "acquire_gil"]
    /\ UNCHANGED <<extVars, lifeVars, callVars, gil, invoked, raised, logs, propagated>>

\* Query::reply called by the callback: a reply to the Query of the running
\* get is sent into its receiver, a reply to the query of another process
\* leaves the process
QueryReplyLocal(t, engOk) ==
    /\ pc[t] = "in_callback"
    /\ kind[cur[t].h] = "qbl"
    /\ nOps < MaxOps
    /\ Return("reply", cur[t].h, Ok, TRUE, TRUE, ~engOk)
    /\ replyWarns' = IF engOk THEN replyWarns ELSE replyWarns + 1
    /\ IF cur[t].ev = GetQuery /\ engOk /\ txOpen /\ Len(delivered) < MaxReplies
       THEN /\ chan' = Append(chan, Len(delivered) + 1)
            /\ delivered' = Append(delivered, Len(delivered) + 1)
       ELSE UNCHANGED <<chan, delivered>>
    /\ UNCHANGED <<lifeVars, gil, bridgeVars, fnVars, mainPc, txOpen, result, returned>>

\* the engine signals the completion of the get: every queryable of this
\* process has been handed its Query and the closures called with it have
\* returned, which drops the Query
LocalDone ==
    /\ \A h \in Entities : (registered[h] /\ kind[h] = "qbl") => GetQuery \in Range(handed[h])
    /\ \A t \in Threads : InClosure(t) => cur[t].ev # GetQuery
    /\ EngineDone


\* ---------------------------------------------------------------- specifications
\* the calls caller code makes on the handles; the engine hands no event
Next ==
    \/ Id
    \/ Info
    \/ Config
    \/ \E engOk \in BOOLEAN : Close(engOk)
    \/ \E k \in KeyInputs, v \in ValueInputs, kwOk \in BOOLEAN, engOk \in BOOLEAN :
          Put(k, v, kwOk, engOk)
    \/ \E k \in KeyInputs, kwOk \in BOOLEAN, engOk \in BOOLEAN : Delete(k, kwOk, engOk)
    \/ \E k \in KeyInputs, engOk \in BOOLEAN : DeclareExpr(k, engOk)
    \/ \E engOk \in BOOLEAN : UndeclareExpr(engOk)
    \/ \E k \in KeyInputs, engOk \in BOOLEAN : DeclarePublication(k, engOk)
    \/ \E k \in KeyInputs, engOk \in BOOLEAN : UndeclarePublication(k, engOk)
    \/ \E h \in Entities, k \in KeyInputs, kwOk \in BOOLEAN, engOk \in BOOLEAN :
          Subscribe(h, k, kwOk, engOk)
    \/ \E h \in Entities, k \in KeyInputs, kwOk \in BOOLEAN, engOk \in BOOLEAN :
          Queryable(h, k, kwOk, engOk)
    \/ \E sel \in SelectorInputs, kwOk \in BOOLEAN, engOk \in BOOLEAN : Get(sel, kwOk, engOk)
    \/ EngineReply
    \/ EngineDone
    \/ GetRecv
    \/ GetReturn
    \/ \E engOk \in BOOLEAN : KeyExprToExpr(engOk)
    \/ \E h \in Entities, engOk \in BOOLEAN : Pull(h, engOk)
    \/ \E h \in Entities, engOk \in BOOLEAN : SubscriberClose(h, engOk)
    \/ \E h \in Entities, engOk \in BOOLEAN : QueryableClose(h, engOk)

Spec == Init /\ [][Next]_vars

\* the declare and close calls of caller code, the GIL, and the engine
\* threads that hand events to the closures of the declared entities
NextBridge ==
    \/ \E engOk \in BOOLEAN : Close(engOk)
    \/ \E h \in Entities, k \in KeyInputs, kwOk \in BOOLEAN, engOk \in BOOLEAN :
          Subscribe(h, k, kwOk, engOk)
    \/ \E h \in Entities, k \in KeyInputs, kwOk \in BOOLEAN, engOk \in BOOLEAN :
          Queryable(h, k, kwOk, engOk)
    \/ \E h \in Entities, engOk \in BOOLEAN : SubscriberClose(h, engOk)
    \/ \E h \in Entities, engOk \in BOOLEAN : QueryableClose(h, engOk)
    \/ CallerYield
    \/ CallerResume
    \/ \E t \in Threads, h \in Entities : Deliver(t, h)
    \/ \E t \in Threads : AcquireGil(t)
    \/ \E t \in Threads : CallbackStart(t)
    \/ \E t \in Threads, raises \in BOOLEAN : CallbackEnd(t, raises)
    \/ \E t \in Threads : Warn(t)
    \/ \E t \in Threads : BridgeReturn(t)

SpecBridge == Init /\ [][NextBridge]_vars

\* the declare calls of caller code alone with the GIL and the engine
\* threads: what a declare call and the closures it registers wait for
\* (the engine hands at most MaxDeclareEvents events in such a run)
NextDeclare ==
    \/ \E h \in Entities, k \in KeyInputs, kwOk \in BOOLEAN, engOk \in BOOLEAN :
          Subscribe(h, k, kwOk, engOk)
    \/ \E h \in Entities, k \in KeyInputs, kwOk \in BOOLEAN, engOk \in BOOLEAN :
          Queryable(h, k, kwOk, engOk)
    \/ CallerYield
    \/ CallerResume
    \/ \E t \in Threads, h \in Entities :
          TotalHanded < MaxDeclareEvents /\ Deliver(t, h)
    \/ \E t \in Threads : AcquireGil(t)
    \/ \E t \in Threads : CallbackStart(t)
    \/ \E t \in Threads, raises \in BOOLEAN : CallbackEnd(t, raises)
    \/ \E t \in Threads : Warn(t)
    \/ \E t \in Threads : BridgeReturn(t)

\* scheduling: the interpreter makes the main thread give the GIL up when
\* another thread requests it (switch interval), a thread blocked in
\* acquire_gil gets the GIL if it is released again and again, and a thread
\* holding the GIL keeps running its closure to the end
FairDeclare ==
    /\ WF_vars(CallerYield)
    /\ \A t \in Threads :
         /\ SF_vars(AcquireGil(t))
         /\ WF_vars(CallbackStart(t))
         /\ WF_vars(\E raises \in BOOLEAN : CallbackEnd(t, raises))
         /\ WF_vars(Warn(t))
         /\ WF_vars(BridgeReturn(t))

SpecDeclare == Init /\ [][NextDeclare]_vars /\ FairDeclare

\* a queryable, the queries the engine hands to its closure, and the
\* replies its callback makes; put stands for the calls of the main thread
NextQuery ==
    \/ \E k \in KeyInputs, v \in ValueInputs, kwOk \in BOOLEAN, engOk \in BOOLEAN :
          Put(k, v, kwOk, engOk)
    \/ \E h \in Entities, k \in KeyInputs, kwOk \in BOOLEAN, engOk \in BOOLEAN :
          Queryable(h, k, kwOk, engOk)
    \/ CallerYield
    \/ CallerResume
    \/ \E t \in Threads, h \in Entities : Deliver(t, h)
    \/ \E t \in Threads : AcquireGil(t)
    \/ \E t \in Threads : CallbackStart(t)
    \/ \E t \in Threads, engOk \in BOOLEAN : QueryReply(t, engOk)
    \/ \E t \in Threads, engOk \in BOOLEAN : QueryReplySync(t, engOk)
    \/ \E t \in Threads, raises \in BOOLEAN : CallbackEnd(t, raises)
    \/ \E t \in Threads : Warn(t)
    \/ \E t \in Threads : BridgeReturn(t)

SpecQuery == Init /\ [][NextQuery]_vars

\* the entry points that convert their arguments: the constructors and
\* the calls on an open or closed Session
NextConvert ==
    \/ \E k \in KeyInputs : KeyExprNew(k)
    \/ \E k1 \in KeyInputs, k2 \in KeyInputs : KeyExprIntersect(k1, k2)
    \/ \E v \in ValueInputs : ValueNew(v)
    \/ \E k \in KeyInputs, v \in ValueInputs, kwOk \in BOOLEAN : SampleNew(k, v, kwOk)
    \/ \E v \in ValueInputs : ErrorNew(v)
    \/ \E engOk \in BOOLEAN : Close(engOk)
    \/ \E k \in KeyInputs, v \in ValueInputs, kwOk \in BOOLEAN, engOk \in BOOLEAN :
          Put(k, v, kwOk, engOk)
    \/ \E k \in KeyInputs, kwOk \in BOOLEAN, engOk \in BOOLEAN : Delete(k, kwOk, engOk)
    \/ \E h \in Entities, k \in KeyInputs, kwOk \in BOOLEAN, engOk \in BOOLEAN :
          Subscribe(h, k, kwOk, engOk)
    \/ \E h \in Entities, k \in KeyInputs, kwOk \in BOOLEAN, engOk \in BOOLEAN :
          Queryable(h, k, kwOk, engOk)
    \/ \E sel \in SelectorInputs, kwOk \in BOOLEAN, engOk \in BOOLEAN : Get(sel, kwOk, engOk)
    \/ EngineReply
    \/ EngineDone
    \/ GetRecv
    \/ GetReturn

SpecConvert == Init /\ [][NextConvert]_vars

\* KeyExpr.intersect applied to every pair of key expressions
NextIntersect == \E libRes \in BOOLEAN : Intersect(libRes)

SpecIntersect == InitIntersect /\ [][NextIntersect]_vars

\* Value(x) and Value.decode() applied to every typed input
NextCodec ==
    \/ \E ord \in Orders(input.x) : Encode(ord)
    \/ Decode

SpecCodec == InitCodec /\ [][NextCodec]_vars

\* one publication of a value to a key on which subscriptions are declared
NextPubSub ==
    \/ \E h \in Entities, k \in KeyInputs, kwOk \in BOOLEAN, engOk \in BOOLEAN :
          Subscribe(h, k, kwOk, engOk)
    \/ \E ord \in Orders(input.x), engOk \in BOOLEAN : PutValue(ord, engOk)
    \/ CallerYield
    \/ CallerResume
    \/ \E t \in Threads, h \in Entities : Route(t, h)
    \/ \E t \in Threads : AcquireGil(t)
    \/ \E t \in Threads : CallbackStart(t)
    \/ \E t \in Threads : CallbackDecode(t)
    \/ \E t \in Threads, raises \in BOOLEAN : CallbackEnd(t, raises)
    \/ \E t \in Threads : Warn(t)
    \/ \E t \in Threads : BridgeReturn(t)

SpecPubSub == InitPubSub /\ [][NextPubSub]_vars

\* a Value is built from an object, or the object is put with an encoding
\* option; close stands for the other calls of the caller
NextValue ==
    \/ \E ord \in Orders(input.x) : ValueOf(ord)
    \/ \E ord \in Orders(input.x), opt \in EncodingOptions, engOk \in BOOLEAN :
          PutEncoding(ord, opt, engOk)
    \/ \E engOk \in BOOLEAN : Close(engOk)

SpecValue == InitValue /\ [][NextValue]_vars


\* a value selector is parsed
NextValueSelector == ParseValueSelector

SpecValueSelector == InitValueSelector /\ [][NextValueSelector]_vars


\* the value selector of a query is decoded
NextDecodeValueSelector == DecodeValueSelector

SpecDecodeValueSelector == InitDecodeValueSelector /\ [][NextDecodeValueSelector]_vars


\* gets with one kind of selector object, their replies, and close
NextGet ==
    \/ \E kwOk \in BOOLEAN, engOk \in BOOLEAN : GetSelector(kwOk, engOk)
    \/ EngineReply
    \/ EngineDone
    \/ GetRecv
    \/ GetReturn
    \/ \E engOk \in BOOLEAN : Close(engOk)

SpecGet == InitGet /\ [][NextGet]_vars


\* queryables of this process, queries of other processes (handed while no
\* get of this process runs), and a get of this process that the queryables
\* of this process answer, next to the queryables of other processes whose
\* replies the engine puts into the receiver
NextLocalQuery ==
    \/ \E h \in Entities, k \in KeyInputs, kwOk \in BOOLEAN, engOk \in BOOLEAN :
          Queryable(h, k, kwOk, engOk)
    \/ \E engOk \in BOOLEAN : GetLocal(engOk)
    \/ EngineReply
    \/ GetRecv
    \/ GetReturn
    \/ LocalDone
    \/ CallerYield
    \/ CallerResume
    \/ \E t \in Threads, h \in Entities : ~txOpen /\ Deliver(t, h)
    \/ \E t \in Threads, h \in Entities : QueryDeliver(t, h)
    \/ \E t \in Threads : AcquireGil(t)
    \/ \E t \in Threads : CallbackStart(t)
    \/ \E t \in Threads, engOk \in BOOLEAN : QueryReplyLocal(t, engOk)
    \/ \E t \in Threads, raises \in BOOLEAN : CallbackEnd(t, raises)
    \/ \E t \in Threads : Warn(t)
    \/ \E t \in Threads : BridgeReturn(t)

\* scheduling: the engine delivers the Query and signals completion as soon
\* as it can, the receive loop of get runs on, a thread blocked in
\* acquire_gil gets the GIL if it is released again and again, and a thread
\* holding the GIL runs its closure to the end
FairLocalQuery ==
    /\ WF_vars(GetRecv)
    /\ WF_vars(GetReturn)
    /\ WF_vars(LocalDone)
    /\ \A t \in Threads :
         /\ WF_vars(\E h \in Entities : QueryDeliver(t, h))
         /\ SF_vars(AcquireGil(t))
         /\ WF_vars(CallbackStart(t))
         /\ WF_vars(\E raises \in BOOLEAN : CallbackEnd(t, raises))
         /\ WF_vars(Warn(t))
         /\ WF_vars(BridgeReturn(t))

SpecLocalQuery == Init /\ [][NextLocalQuery]_vars /\ FairLocalQuery


\* ---------------------------------------------------------------- properties
\* a step in which caller code made a call on the Session handle
SessionCallStep == nOps' = nOps + 1 /\ last'.on = 0

\* a step in which caller code called Session.close()
SessionCloseStep == SessionCallStep /\ last'.op = "close"

IsResult(call, r) == call.exc = r.exc /\ call.msg = r.msg

IsPrefix(a, b) == Len(a) <= Len(b) /\ \A i \in 1..Len(a) : a[i] = b[i]

\* C1: once close() has been called on the Session handle, whatever it
\* returned, every later call on that handle (close included) fails with the
\* "zenoh session was closed" error, reaches no engine call and changes
\* nothing.
C1_ClosedAfterClose ==
    [][(SessionCallStep /\ closeCalled) =>
          /\ IsResult(last', SessionClosedErr)
          /\ engineCalls' = engineCalls
          /\ s' = "None"
          /\ <<refs, eng, engCloseCalls, kind, inner, registered>>' =
             <<refs, eng, engCloseCalls, kind, inner, registered>>]_vars

\* a call other than close failed as closed after a close that failed
C1_Witness ==
    /\ closeCalled
    /\ eng = "open"
    /\ last.on = 0
    /\ last.op = "subscribe"
    /\ IsResult(last, SessionClosedErr)

\* C2: over any sequence of close() calls on a Subscriber or Queryable the
\* engine's close is invoked exactly once, by the first close(); that close
\* empties the slot whether the engine succeeded or not, and every later
\* close() fails with the "already closed" error without an engine call.
C2_CloseOnce ==
    /\ [](\A h \in Entities :
            /\ engHClose[h] = (IF hCloseCalls[h] > 0 THEN 1 ELSE 0)
            /\ hCloseCalls[h] > 0 => inner[h] = "None")
    /\ [][\A h \in Entities :
            (hCloseCalls[h] > 0 /\ hCloseCalls'[h] > hCloseCalls[h]) =>
                /\ last'.on = h
                /\ IsResult(last', IF kind[h] = "sub"
                                   THEN SubscriberAlreadyClosedErr
                                   ELSE QueryableAlreadyClosedErr)
                /\ engineCalls' = engineCalls]_vars

\* a second close() was made on a handle
C2_Witness ==
    \E h \in Entities :
        /\ hCloseCalls[h] >= 2
        /\ last.on = h
        /\ last.op = "close"
        /\ last.exc = "ZError"

\* C3: the engine session is never torn down while another reference
\* exists: the engine's close is invoked only by a Session.close() that
\* holds the last reference; a Session.close() made while others hold a
\* reference fails, and the engine session stays open for the holders.
C3_NoTeardownWhileShared ==
    /\ []((\E h \in Entities : registered[h]) => eng = "open")
    /\ [][engCloseCalls' # engCloseCalls =>
            (SessionCloseStep /\ refs = 1 /\ \A h \in Entities : ~registered[h])]_vars
    /\ [][(SessionCloseStep /\ s = "Some" /\ refs > 1) =>
            /\ last'.exc # "none"
            /\ eng' = "open"
            /\ engCloseCalls' = engCloseCalls
            /\ registered' = registered]_vars

\* a callback of a holder runs after the Session.close() that failed for
\* the other holders
C3_Witness ==
    /\ last.on = 0
    /\ last.op = "close"
    /\ IsResult(last, NotSoleOwnerErr)
    /\ eng = "open"
    /\ \E t \in Threads : pc[t] = "in_callback"

\* C4: a Session.close() that fails because other holders exist restores
\* nothing: the slot of the handle is left empty, so a later call on it
\* fails as closed, and the error is the "not owner of the last reference"
\* one, which is neither the closed error nor an engine failure.
C4_FailedCloseConsumes ==
    /\ [][(SessionCloseStep /\ s = "Some" /\ refs > 1) =>
            /\ s' = "None"
            /\ IsResult(last', NotSoleOwnerErr)
            /\ ~IsResult(last', SessionClosedErr)
            /\ ~IsResult(last', to_pyerr)]_vars
    /\ [][(SessionCallStep /\ last.on = 0 /\ IsResult(last, NotSoleOwnerErr)) =>
            IsResult(last', SessionClosedErr)]_vars

\* the handle is empty right after the failed close
C4_Witness ==
    /\ last.on = 0
    /\ last.op = "close"
    /\ IsResult(last, NotSoleOwnerErr)
    /\ s = "None"
    /\ refs >= 1

\* C5 as stated: whenever Session.close() is called while only one
\* reference to the engine session remains, it reaches the engine's close
\* (invoked once for the session) and the session is torn down.
C5_CloseSucceedsOnceSole ==
    [][(SessionCloseStep /\ refs = 1) =>
          /\ engCloseCalls' = 1
          /\ eng' = "closed"
          /\ ~IsResult(last', SessionClosedErr)]_vars

\* C5 amended: the outcome of Session.close() is decided by the slot first.
\* With a full slot and the only reference it invokes the engine's close,
\* once for the session, and returns the engine's outcome; with a full slot
\* and other references it fails as not sole owner and consumes the handle;
\* with an empty slot (any earlier close, the failed one included) it fails
\* as closed and never reaches the engine, however many references remain.
C5_CloseBySlotThenOwner ==
    /\ [](engCloseCalls <= 1)
    /\ [][s = "None" => (s' = "None" /\ engCloseCalls' = engCloseCalls)]_vars
    /\ [][SessionCloseStep =>
            IF s = "Some" /\ refs = 1
            THEN /\ engCloseCalls' = 1
                 /\ eng' = "closed"
                 /\ (IsResult(last', Ok) \/ IsResult(last', to_pyerr))
            ELSE IF s = "Some"
            THEN /\ IsResult(last', NotSoleOwnerErr)
                 /\ engCloseCalls' = engCloseCalls
                 /\ eng' = eng
            ELSE /\ IsResult(last', SessionClosedErr)
                 /\ engCloseCalls' = engCloseCalls
                 /\ eng' = eng]_vars

\* the session was shared, the other holder was closed, and the first
\* close() on the Session then tore the engine session down
C5_Witness ==
    /\ last.on = 0
    /\ last.op = "close"
    /\ IsResult(last, Ok)
    /\ eng = "closed"
    /\ engCloseCalls = 1
    /\ \E h \in Entities : kind[h] # "none" /\ hCloseCalls[h] = 1

C7_GilHeldAroundCallback ==
    \A t \in Threads :
        /\ pc[t] \in {"call1", "in_callback", "warn", "return"} => gil = EngineThread(t)
        /\ pc[t] \in {"idle", "acquire_gil"} => gil # EngineThread(t)

\* a closure has returned after its callback raised, and another thread
\* then got the GIL
C7_Witness ==
    \E t, u \in Threads :
        /\ pc[t] = "idle"
        /\ pc[u] = "in_callback"
        /\ \E h \in Entities : raised[h] # {} /\ h # cur[u].h
        /\ \A v \in Threads : pc[v] \notin {"warn", "return"}

\* C8: at most one thread executes caller code at any time: no two
\* callbacks run at once, and no callback runs while the main thread runs
\* caller code.
C8_OneThreadInCallerCode ==
    Cardinality({t \in Threads : pc[t] = "in_callback"})
        + (IF gil = MainThread THEN 1 ELSE 0) <= 1

\* two engine threads are inside closures at once, one running its callback
C8_Witness ==
    \E t, u \in Threads :
        /\ pc[t] = "in_callback"
        /\ pc[u] = "acquire_gil"

\* C9: a callback that raises is contained at the bridge: nothing is
\* returned into the engine, the error is written to the log, the entity
\* stays registered, and every event the engine hands over, those after a
\* failed one included, gets its callback invocation.
C9_CallbackErrorContained ==
    /\ [](propagated = 0)
    /\ [](\A k \in {"sub", "qbl"} :
            logs[k] + Cardinality({t \in Threads : pc[t] = "warn" /\ kind[cur[t].h] = k})
              = Cardinality({e \in Entities \X (1..MaxEvents) :
                               kind[e[1]] = k /\ e[2] \in raised[e[1]]}))
    /\ [][\A k \in {"sub", "qbl"} : logs'[k] # logs[k] => registered' = registered]_vars
    /\ [](\A h \in Entities :
            Len(handed[h]) - Len(invoked[h]) =
              Cardinality({t \in Threads :
                             pc[t] \in {"acquire_gil", "call1"} /\ cur[t].h = h}))

\* the callback was invoked again after an invocation that raised
C9_Witness ==
    \E h \in Entities :
        /\ 1 \in raised[h]
        /\ Len(invoked[h]) = 2
        /\ logs[kind[h]] >= 1

DeclareStep == nOps' = nOps + 1 /\ last'.op \in {"subscribe", "queryable"}

\* C11: the bridge takes the GIL only inside the closure running on an
\* engine thread, and only when it is free; a declare call made while the
\* caller holds the GIL completes in the caller's own step, still holding
\* the GIL and without waiting for any engine thread, so it cannot deadlock
\* against the bridge: every event handed to a closure is eventually
\* delivered to its callback.
C11_DeclareNoDeadlock ==
    /\ [][\A t \in Threads :
            (gil' = EngineThread(t) /\ gil # EngineThread(t)) =>
                (pc[t] = "acquire_gil" /\ gil = GilFree)]_vars
    /\ [][DeclareStep => (gil = MainThread /\ gil' = MainThread /\ pc' = pc)]_vars
    /\ \A t \in Threads : (pc[t] = "acquire_gil") ~> (pc[t] = "in_callback")

\* a declare call returned to the caller, who holds the GIL, while an
\* engine thread was blocked in its closure waiting for the GIL
C11_Witness ==
    /\ last.op \in {"subscribe", "queryable"}
    /\ IsResult(last, Ok)
    /\ gil = MainThread
    /\ \E t \in Threads : pc[t] = "acquire_gil"

\* C12: a get on an open session submits the query and keeps the calling
\* thread inside the call until the engine has signalled completion; the
\* list it then returns holds exactly the replies the engine delivered for
\* the query, each once and in the order received; nothing is returned
\* while the query is still running.
C12_GetCollectsAll ==
    /\ [][(mainPc = "get_recv" /\ mainPc' = "caller") =>
            /\ ~txOpen
            /\ returned' = delivered
            /\ IsResult(last', Ok)
            /\ last'.op = "get"]_vars
    /\ [][mainPc = "get_recv" => (returned' = returned \/ mainPc' = "caller")]_vars
    /\ [][mainPc = "get_recv" => (nOps' = nOps \/ last'.op = "get")]_vars

\* a get returned two replies, the first received before the second was sent
C12_Witness ==
    /\ mainPc = "caller"
    /\ last.op = "get"
    /\ IsResult(last, Ok)
    /\ returned = <<1, 2>>
    /\ delivered = <<1, 2>>

\* C13: with subscriptions open on a key, a value published to that key
\* causes one invocation of each subscription's callback, and the Sample it
\* carries has the published key as its suffix and decodes to the
\* published input.
C13_EndToEnd ==
    input.fn = "pubsub" =>
        /\ \A h \in Entities : Len(invoked[h]) <= 1
        /\ output.done => (output.key = input.key /\ output.dec = input.x)

\* C14: whenever the engine call made by an operation fails, the operation
\* returns the engine's error to its caller (put, delete, declare,
\* undeclare, subscribe, queryable, get, pull, close, Query.reply).
C14_EngineErrorsSurfaced == engErr => IsResult(last, to_pyerr)

\* C15: a call whose argument is of a type that cannot be converted to a
\* KeyExpr or a Value never crashes and never succeeds; the constructors
\* and KeyExpr.intersect, which do nothing but convert, return the
\* conversion error (a PyValueError naming the type).
C15_ConversionErrorsReported ==
    /\ last.exc # "PanicException"
    /\ ~last.argsOk => last.exc # "none"
    /\ (last.on = NoHandle /\ ~last.argsOk) =>
          (IsResult(last, KeyExprConversionErr) \/ IsResult(last, ValueConversionErr))

\* C16: intersect returns false for two key expressions of different
\* scopes, whatever their suffixes are and whatever the comparison of the
\* suffixes would give.
C16_ScopeMismatchFalse ==
    (output.done /\ input.fn = "intersect" /\ input.s1.scope # input.s2.scope) =>
        output.res = FALSE

\* two key expressions of different scopes with the same suffix, which the
\* comparison of the suffixes would report as intersecting
C16_Witness ==
    /\ output.done
    /\ input.fn = "intersect"
    /\ input.s1.scope # input.s2.scope
    /\ input.s1.suffix = input.s2.suffix
    /\ output.lib
    /\ ~output.res

\* C19: for every input x that is a bytes, str, int, float or dict object,
\* decoding the Value made from x gives x back.
C19_RoundTrip ==
    (/\ input.fn = "codec"
     /\ output.done
     /\ input.x.ty \in {"bytes", "str", "int", "float", "dict"}) =>
        output.dec = input.x

\* C20: decode returns a result or a type error for every encoding and
\* payload and never panics: Empty and AppOctetStream give the payload as
\* bytes, TextPlain gives a str, the integer, float, JSON and properties
\* encodings give a value of their type or a type error when the payload
\* does not parse, and every other encoding gives the error that names it.
C20_DecodeTotal ==
    (input.fn = "codec" /\ output.done /\ output.val.ok) =>
        LET e == output.val.encoding
            q == output.val.payload
            d == output.dec
        IN  /\ d.ok \/ d.exc = "PyTypeError"
            /\ e \in {"Empty", "AppOctetStream"} => d = PyObj("bytes", q)
            /\ e = "TextPlain" => (d.ok /\ d.ty = "str")
            /\ e = "AppInteger" => (d.ok <=> ParseInt(q).ok) /\ (d.ok => d.ty = "int")
            /\ e = "AppFloat" => (d.ok <=> ParseFloat(q).ok) /\ (d.ok => d.ty = "float")
            /\ e = "AppProperties" => (d.ok <=> ValidUtf8(q)) /\ (d.ok => d.ty = "dict")
            /\ e \in {"AppJson", "TextJson"} =>
                  /\ d.ok <=> (ValidUtf8(q) /\ ParseJson(q).ok)
                  /\ d.ok => d.ty \in {"int", "float"}
            /\ e \notin KnownEncodings => (~d.ok /\ d.msg[2] = e)

\* a JSON payload holding a number with a fraction was decoded to a float,
\* the last of the three conversions tried for a number
C20_Witness ==
    /\ input.fn = "codec"
    /\ output.done
    /\ output.val.ok
    /\ output.val.encoding = "TextJson"
    /\ output.val.payload = <<"1", ".", "1">>
    /\ output.dec = PyObj("float", Float(FALSE, 1, <<"1">>))

\* C21: a value gets its payload and its encoding together from the typed
\* input it is made from: bytes gives AppOctetStream, str gives TextPlain, a
\* dict gives AppProperties, an int gives AppInteger, a float gives AppFloat
\* and the pair form gives the encoding of the pair; this holds for the Value
\* built by Value() and for the value put() writes, its encoding option
\* included.
C21_EncodingFromInput ==
    (input.fn = "value" /\ output.done /\ output.val.ok) =>
        output.val.encoding =
            CASE input.x.ty = "bytes" -> "AppOctetStream"
              [] input.x.ty = "str" -> "TextPlain"
              [] input.x.ty = "dict" -> "AppProperties"
              [] input.x.ty = "int" -> "AppInteger"
              [] input.x.ty = "float" -> "AppFloat"
              [] OTHER -> input.x.v.encoding

\* C22: parsing the value selector filter(properties)[fragment] gives the
\* filter as the text before the first "(" or "[", the properties as the map
\* of the ";"-separated key=value pairs and the fragment as the sequence of
\* its ";"-separated fields in order; without "(...)" the map is empty and
\* without "[...]" there is no fragment.
C22_ParseValueSelector ==
    (input.fn = "value_selector" /\ output.done) =>
        /\ output.res.filter = input.filter
        /\ output.res.properties = input.props
        /\ IF input.hasFrag
           THEN output.res.fragment.ty = "list" /\ output.res.fragment.v = input.fields
           ELSE output.res.fragment.ty = "None"

\* C23: decoding a value selector in which a property key occurs more than
\* once fails with an error that names the key of the first pair whose key
\* occurred before, and returns no map; when all keys are distinct the
\* result is the map with exactly one entry per key, holding that key's
\* value.
C23_DuplicateKeyError ==
    (input.fn = "decode_value_selector" /\ output.done) =>
        LET pairs == input.pairs
            Dup(j) == \E i \in 1..(j - 1) : pairs[i][1] = pairs[j][1]
            res == output.res
        IN  IF \E j \in DOMAIN pairs : Dup(j)
            THEN LET first == CHOOSE j \in DOMAIN pairs :
                                  Dup(j) /\ \A i \in 1..(j - 1) : ~Dup(i)
                 IN  /\ ~res.ok
                     /\ res.exc = "ZError"
                     /\ res.msg[2] = pairs[first][1]
                     /\ "v" \notin DOMAIN res
            ELSE /\ res.ok
                 /\ res.ty = "dict"
                 /\ DOMAIN res.v = {pairs[i][1] : i \in DOMAIN pairs}
                 /\ \A i \in DOMAIN pairs : res.v[pairs[i][1]] = pairs[i][2]

\* a value selector with two distinct keys followed by the first key again,
\* with another value, was decoded: the error names that key
C23_Witness ==
    /\ input.fn = "decode_value_selector"
    /\ output.done
    /\ input.pairs = <<<<<<"a">>, <<"a">>>>, <<<<"b">>, <<"a">>>>, <<<<"a">>, <<"b">>>>>>
    /\ ~output.res.ok
    /\ output.res.msg[2] = <<"a">>

\* C25: get accepts a Selector object, a KeyExpr, an int and a str as its
\* selector: a get with one of them never ends with the error that the type
\* cannot be converted to a Selector; only a get with an object of another
\* type does.
C25_GetAcceptsSelector ==
    (input.fn = "get" /\ last.op = "get") =>
        (IsResult(last, SelectorConversionErr) <=>
            (s = "Some" /\ input.selector \notin {"Selector", "KeyExpr", "int", "str"}))

\* C27: a get issued by caller code terminates, also when a queryable of the
\* same process has to answer it: whenever the caller is inside get waiting
\* on the reply receiver, get eventually returns to the caller.
C27_GetTerminates == (mainPc = "get_recv") ~> (mainPc = "caller")

\* the Subscriber and Queryable handles that are open
OpenEntities == {h \in Entities : inner[h] = "Some"}

\* C28: every open Subscriber and Queryable holds a reference of its own to
\* the engine session, next to the one of the Session handle; a
\* Session.close() made on the Session handle while one of them is open
\* fails with the not-sole-owner error, does not invoke the engine's close
\* and leaves every one of them open and registered; from then on an open
\* Subscriber or Queryable stays registered with the engine session open,
\* so the engine goes on calling its closure.
C28_OpenEntityBlocksClose ==
    /\ [](eng # "closed" =>
            refs = Cardinality(OpenEntities) + (IF s = "Some" THEN 1 ELSE 0))
    /\ [][(SessionCloseStep /\ s = "Some" /\ OpenEntities # {}) =>
            /\ IsResult(last', NotSoleOwnerErr)
            /\ eng' = "open"
            /\ engCloseCalls' = engCloseCalls
            /\ inner' = inner
            /\ registered' = registered]_vars
    /\ [](\A h \in OpenEntities : registered[h] /\ eng = "open")

\* after the Session.close() that failed with a subscriber and a queryable
\* open, the closure of one took the GIL and called its callback while the
\* closure of the other waits for the GIL
C28_Witness ==
    /\ last.on = 0
    /\ IsResult(last, NotSoleOwnerErr)
    /\ \E h, g \in OpenEntities :
         /\ kind[h] = "sub"
         /\ kind[g] = "qbl"
         /\ \E t, u \in Threads :
              /\ pc[t] = "in_callback" /\ cur[t].h = h
              /\ pc[u] = "acquire_gil" /\ cur[u].h = g

\* C29: once close() on a Subscriber or Queryable has returned, its callback
\* is not invoked again: no closure starts the callback of a handle on which
\* close() has been called, whatever the closure was doing when it was
\* called.
C29_NoCallbackAfterClose ==
    [][\A t \in Threads :
          (pc[t] = "call1" /\ pc'[t] = "in_callback") => hCloseCalls[cur[t].h] = 0]_vars

\* a step in which caller code called close() on the Subscriber or Queryable h
HandleCloseStep(h) == nOps' = nOps + 1 /\ last'.op = "close" /\ last'.on = h

\* what Session.close() does with the slot and the references it finds: the
\* closed error, the engine's close, or the not-owner error
SessionCloseOutcome(slot, n) ==
    IF try_take(slot).res # Ok THEN try_take(slot).res
    ELSE IF try_unwrap(n) THEN Ok ELSE NotSoleOwnerErr

\* a close() on the handle h leaves the slot of the Session handle and the
\* slot, the kind and the registered closure of every other handle as they
\* were
OtherSlotsKept(h) ==
    /\ s' = s
    /\ try_ref(s') = try_ref(s)
    /\ \A g \in Entities \ {h} :
          /\ inner'[g] = inner[g]
          /\ kind'[g] = kind[g]
          /\ registered'[g] = registered[g]
          /\ hCloseCalls'[g] = hCloseCalls[g]

\* C30 as stated: closing one Subscriber or Queryable handle changes only
\* that handle's slot; the Session handle and every other handle keep their
\* slot state, and every operation on them, Session.close() included, does
\* what it would have done before the close.
C30_CloseChangesOnlyItsSlot ==
    [][\A h \in Entities : HandleCloseStep(h) =>
          /\ OtherSlotsKept(h)
          /\ SessionCloseOutcome(s', refs') = SessionCloseOutcome(s, refs)]_vars

\* C30 amended: closing one Subscriber or Queryable handle changes only that
\* handle's slot; the Session handle and every other handle keep their slot
\* state (open stays open, closed stays closed), so the operations that look
\* at the slots alone do what they did before. Session.close() is the one
\* exception: when h was the last open handle, it turns from the not-owner
\* error to the engine's close.
C30_CloseKeepsOtherSlots ==
    [][\A h \in Entities : HandleCloseStep(h) =>
          /\ OtherSlotsKept(h)
          /\ \/ SessionCloseOutcome(s', refs') = SessionCloseOutcome(s, refs)
             \/ /\ inner[h] = "Some" /\ OpenEntities' = {}
                /\ SessionCloseOutcome(s, refs) = NotSoleOwnerErr
                /\ SessionCloseOutcome(s', refs') = Ok]_vars

\* a handle was closed while the Session handle and another handle are open
C30_Witness ==
    /\ last.op = "close" /\ last.on \in Entities
    /\ inner[last.on] = "None"
    /\ s = "Some"
    /\ \E g \in Entities \ {last.on} : inner[g] = "Some" /\ registered[g]

====
